---- MODULE Spec2Model ----
(***************************************************************************)
(* Shift bot: the spreadsheet gateway (sheets.py), the value conversions   *)
(* (utils.py) and the conversation handlers (__main__.py).                 *)
(*                                                                         *)
(* Every gateway method is a chain of awaited spreadsheet calls; each      *)
(* awaited read or write is one atomic step of the calling session, and    *)
(* steps of different sessions interleave freely (Spec).  SeqSpec runs the *)
(* same steps with one call at a time.                                     *)
(*                                                                         *)
(* Representation.  Free text (comments) is a sequence of one-character    *)
(* strings.  Names and statuses are atomic strings.  A date is a day       *)
(* number, a datetime is <<day, second of the day>>.  A date cell is       *)
(* <<"d", day>>, a datetime cell <<"dt", day, minute>>, an empty cell of   *)
(* either kind is <<>>.  Python's None is <<>> for parsed dates and for    *)
(* optional records, and the string "None" for an optional name.  Hours    *)
(* and rates are floats with integral values, modelled as integers.        *)
(***************************************************************************)
EXTENDS Integers, Sequences, FiniteSets, TLC

VARIABLES
    employees,   \* the employees worksheet: a sequence of rows (header left out)
    shifts,      \* the shifts worksheet: row i of the sequence is sheet row i + 1
    accruals,    \* the accruals worksheet
    today,       \* date.today()
    pc,          \* per session: the awaited gateway step it stands before
    loc,         \* per session: the locals of the running handler / gateway call
    users,       \* AuthorizationRegistry._users
    state,       \* FSMContext state per session
    data,        \* FSMContext data per session
    reply,       \* the last response rendered to the session
    calls,       \* history: the number of gateway calls started
    log,         \* history: one entry per returned update_shift_status call
    accrualShift, \* history: for each accrual row, the sheet row of the shift it was made for
    buttons      \* history: per session, the shift ids of the decision keyboards the
                 \* bot sent to its chat (kept where the chat is followed)

vars == <<employees, shifts, accruals, today, pc, loc, users, state, data, reply,
          calls, log, accrualShift, buttons>>

histVars == <<calls, log, accrualShift, buttons>>

storeVars == <<employees, shifts, accruals, today>>
botVars == <<users, state, data, reply>>

(***************************************************************************)
(* Bounds of the model                                                     *)
(***************************************************************************)
MaxShifts == 2
MaxCalls == 3
Today0 == 8
MaxTicks == 1
MaxBotCalls == 2

Sessions == {1, 2}

(***************************************************************************)
(* Program constants                                                       *)
(***************************************************************************)
SHIFT_STATUS_PENDING == "pending"
SHIFT_STATUS_APPROVED == "approved"
SHIFT_STATUS_DECLINED == "declined"
EDIT_MAX_DAYS == 7

None == <<>>
NoneStr == "None"

(***************************************************************************)
(* utils.py                                                                *)
(***************************************************************************)
RECURSIVE LStrip(_)
LStrip(s) == IF s # <<>> /\ Head(s) = " " THEN LStrip(Tail(s)) ELSE s

RECURSIVE RStrip(_)
RStrip(s) == IF s # <<>> /\ s[Len(s)] = " " THEN RStrip(SubSeq(s, 1, Len(s) - 1)) ELSE s

\* str.strip() on free text
Strip(s) == RStrip(LStrip(s))

\* date.strftime("%d.%m.%Y")
format_date(value) == <<"d", value>>

\* datetime.strftime("%d.%m.%Y %H:%M"): the seconds are dropped
format_datetime(value) == <<"dt", value[1], value[2] \div 60>>

\* parse_date: the datetime pattern is tried first, then the date patterns
\* (which give midnight); .date() is taken unless datetime_mode
parse_date(value, datetime_mode) ==
    IF value = <<>> THEN None
    ELSE IF value[1] \notin {"dt", "d"} THEN None
    ELSE LET parsed == IF value[1] = "dt" THEN <<value[2], value[3] * 60>>
                       ELSE <<value[2], 0>>
         IN  IF datetime_mode THEN parsed ELSE <<parsed[1]>>

\* parse_user_date
parse_user_date(text) == parse_date(text, FALSE)

\* str.replace of one character by another
Replace(s, old, new) == [i \in 1..Len(s) |-> IF s[i] = old THEN new ELSE s[i]]

\* the decimal digits (the characters \d and isdigit take) and their values
Digits == <<"0", "1", "2", "3", "4", "5", "6", "7", "8", "9">>
DigitChars == {"0", "1", "2", "3", "4", "5", "6", "7", "8", "9"}
IsDigits(s) == \A i \in 1..Len(s) : s[i] \in DigitChars
DigitValue(c) == (CHOOSE d \in 1..10 : Digits[d] = c) - 1

\* the number a text of digits denotes (0 for the empty text)
RECURSIVE IntOf(_)
IntOf(s) ==
    IF s = <<>> THEN 0 ELSE 10 * IntOf(SubSeq(s, 1, Len(s) - 1)) + DigitValue(s[Len(s)])

\* str(v) for an integer
RECURSIVE Num(_)
Num(v) ==
    IF v < 0 THEN <<"-">> \o Num(-v)
    ELSE IF v < 10 THEN <<Digits[v + 1]>>
    ELSE Num(v \div 10) \o <<Digits[(v % 10) + 1]>>

\* A float is modelled exactly, as a record: a finite value is its decimal mantissa and
\* scale (without trailing zeros), "nan", "inf" and "-inf" are the special values.
RECURSIVE Decimal(_, _)
Decimal(mantissa, scale) ==
    IF scale > 0 /\ mantissa % 10 = 0 THEN Decimal(mantissa \div 10, scale - 1)
    ELSE [special |-> "", mantissa |-> mantissa, scale |-> scale]

Special(name) == [special |-> name, mantissa |-> 0, scale |-> 0]

\* str.lower on the letters of the special values
Lower(s) ==
    [i \in 1..Len(s) |->
        CASE s[i] = "N" -> "n" [] s[i] = "A" -> "a" [] s[i] = "I" -> "i"
          [] s[i] = "F" -> "f" [] s[i] = "T" -> "t" [] s[i] = "Y" -> "y"
          [] OTHER -> s[i]]

\* float(text): <<value>>, or None for a ValueError.  The text is stripped; a sign may
\* come first; then "nan", "inf" or "infinity" in any case, or digits with at most
\* one point and at least one digit.  (Exponents and underscores are not in the
\* alphabet of the texts.)
float(text) ==
    LET stripped == Strip(text)
        signed == stripped # <<>> /\ Head(stripped) \in {"+", "-"}
        sign == IF signed /\ Head(stripped) = "-" THEN -1 ELSE 1
        body == IF signed THEN Tail(stripped) ELSE stripped
        points == { i \in 1..Len(body) : body[i] = "." }
        point == IF points = {} THEN Len(body) + 1
                 ELSE CHOOSE i \in points : \A j \in points : i <= j
        whole == SubSeq(body, 1, point - 1)
        fraction == SubSeq(body, point + 1, Len(body))
    IN  IF Lower(body) = <<"n", "a", "n">> THEN <<Special("nan")>>
        ELSE IF Lower(body) \in {<<"i", "n", "f">>, <<"i", "n", "f", "i", "n", "i", "t", "y">>}
        THEN <<Special(IF sign < 0 THEN "-inf" ELSE "inf")>>
        ELSE IF ~IsDigits(whole) \/ ~IsDigits(fraction) THEN None
        ELSE IF whole = <<>> /\ fraction = <<>> THEN None
        ELSE <<Decimal(sign * IntOf(whole \o fraction), Len(fraction))>>

\* value < 0 on a float
LessThanZero(value) ==
    IF value.special = "" THEN value.mantissa < 0 ELSE value.special = "-inf"

\* a float as the numbers of this model: an integral value is an integer (hours and
\* rates are calculated with integers), any other value stays the float
Number(value) ==
    IF value.special = "" /\ value.scale = 0 THEN value.mantissa ELSE value

\* a parse_hours that gives 0 for what it cannot take
parse_hours_default(text) ==
    IF text = <<>> THEN <<0>>
    ELSE LET normalized == Strip(Replace(text, ",", "."))
             value == float(normalized)
         IN  IF value = None THEN <<0>>
             ELSE IF LessThanZero(value[1]) THEN <<0>>
             ELSE <<Number(value[1])>>

\* parse_hours: <<value>>, or None
parse_hours(text) ==
    IF text = <<>> THEN None
    ELSE LET normalized == Strip(Replace(text, ",", "."))
             value == float(normalized)
         IN  IF value = None THEN None
             ELSE IF LessThanZero(value[1]) THEN None
             ELSE <<Number(value[1])>>

\* parse_float / parse_int on the numeric cells the gateway wrote
parse_float(value) == value
parse_int(value) == value

(***************************************************************************)
(* The employees worksheet                                                 *)
(***************************************************************************)
EmpRow(n, ph, role, sr, otr, mgr) ==
    [name |-> n, phone |-> ph, role |-> role, shift_rate |-> sr,
     overtime_rate |-> otr, manager |-> mgr]

AnnRow == EmpRow("ann", "380500000001", "staff", 100, 150, "max")
BobRow == EmpRow("bob", "380500000002", "staff", 100, 150, "380500000009")
MaxRow == EmpRow("max", "380500000009", "manager", 0, 0, "")
MiaRow == EmpRow("mia", "380500000008", "manager", 0, 0, "")

\* The sheets an administrator may leave the employees worksheet in
EmployeeSheets ==
    { <<AnnRow, BobRow, MaxRow, MiaRow>>,
      <<EmpRow("ann", "380500000001", "staff", 120, 200, "mia"), BobRow, MaxRow, MiaRow>>,
      <<BobRow, MaxRow, MiaRow>> }

\* _fetch_employees
_fetch_employees ==
    LET name_by_phone(ph) ==
            LET hits == { i \in 1..Len(employees) :
                            employees[i].phone = ph /\ employees[i].phone # ""
                            /\ employees[i].name # "" }
            IN  IF hits = {} THEN NoneStr
                ELSE employees[CHOOSE i \in hits : \A j \in hits : j <= i].name
        mgr(row) == IF row.manager = "" THEN NoneStr
                    ELSE IF name_by_phone(row.manager) # NoneStr
                         THEN name_by_phone(row.manager)
                         ELSE row.manager
    IN  [ i \in 1..Len(employees) |->
            [name |-> employees[i].name, phone |-> employees[i].phone,
             role |-> employees[i].role,
             shift_rate |-> parse_float(employees[i].shift_rate),
             overtime_rate |-> parse_float(employees[i].overtime_rate),
             manager_name |-> mgr(employees[i])] ]

\* the first element of a sequence that satisfies Test, as <<x>>, or None
First(s, Test(_)) ==
    LET hits == { i \in 1..Len(s) : Test(s[i]) }
    IN  IF hits = {} THEN None
        ELSE << s[CHOOSE i \in hits : \A j \in hits : i <= j] >>

\* a lookup by name that settles for the first employee
fetch_first_employee(name) ==
    LET Test(e) == TRUE IN First(_fetch_employees, Test)

fetch_employee_by_name(name) ==
    LET Test(e) == e.name = name IN First(_fetch_employees, Test)

fetch_employee_by_phone(phone) ==
    LET Test(e) == e.phone = phone IN First(_fetch_employees, Test)

\* a role test every employee passes
is_manager_always(employee) == TRUE

is_manager(employee) == employee.role = "manager"

(***************************************************************************)
(* The shifts worksheet                                                    *)
(***************************************************************************)
\* _fetch_shift_records: row i of the data is sheet row i + 1
FetchRecord(i) ==
    LET row == shifts[i] IN
    [row_index |-> i + 1,
     shift_id |-> parse_int(row.id),
     employee_name |-> row.name,
     shift_date |-> IF parse_date(row.date, FALSE) = None THEN today
                    ELSE parse_date(row.date, FALSE)[1],
     overtime_hours |-> parse_float(row.overtime),
     shift_hours |-> parse_float(row.hours),
     comment |-> Strip(row.comment),
     submitted_at |-> parse_date(row.submitted, TRUE),
     status |-> row.status,
     approved_at |-> parse_date(row.approved, TRUE),
     manager_comment |-> Strip(row.mcomment),
     manager_name |-> IF row.manager = "" THEN NoneStr ELSE row.manager]

_fetch_shift_records == [ i \in 1..Len(shifts) |-> FetchRecord(i) ]

\* _next_id over an id column
MaxOf(S) == CHOOSE m \in S : \A n \in S : n <= m

_next_id(rows) ==
    LET numeric == { parse_int(rows[i].id) : i \in 1..Len(rows) }
    IN  IF numeric = {} THEN 1 ELSE MaxOf(numeric) + 1

\* a reference day that is always the shift's day
reference_shift_date(record) == record.shift_date

reference_date(record) ==
    IF record.submitted_at # None THEN record.submitted_at[1] ELSE record.shift_date

\* get_employee_shifts: the records, in sheet order
get_employee_shifts(employee_name, days_back, only_pending) ==
    LET records == _fetch_shift_records
        Keep(record) ==
            /\ record.employee_name = employee_name
            /\ ~(only_pending /\ record.status # SHIFT_STATUS_PENDING)
            /\ (days_back # 0 => ~(reference_date(record) < today - days_back))
    IN  SelectSeq(records, Keep)

\* a lookup that does not look at the status
get_editable_shift_any_status(employee_name, shift_id, max_days_since_submission) ==
    LET records == _fetch_shift_records
        threshold == today - max_days_since_submission
        Test(r) == r.shift_id = shift_id
        hit == First(records, Test)
    IN  IF hit = None THEN None
        ELSE IF hit[1].employee_name # employee_name THEN None
        ELSE IF reference_date(hit[1]) < threshold THEN None
        ELSE hit

\* a lookup that does not look at the owner
get_editable_shift_any_owner(employee_name, shift_id, max_days_since_submission) ==
    LET records == _fetch_shift_records
        threshold == today - max_days_since_submission
        Test(r) == r.shift_id = shift_id
        hit == First(records, Test)
    IN  IF hit = None THEN None
        ELSE IF hit[1].status # SHIFT_STATUS_PENDING THEN None
        ELSE IF reference_date(hit[1]) < threshold THEN None
        ELSE hit

\* get_editable_shift: the first record with the id decides
get_editable_shift(employee_name, shift_id, max_days_since_submission) ==
    LET records == _fetch_shift_records
        threshold == today - max_days_since_submission
        Test(r) == r.shift_id = shift_id
        hit == First(records, Test)
    IN  IF hit = None THEN None
        ELSE IF hit[1].employee_name # employee_name THEN None
        ELSE IF hit[1].status # SHIFT_STATUS_PENDING THEN None
        ELSE IF reference_date(hit[1]) < threshold THEN None
        ELSE hit

get_pending_for_manager(manager_name) ==
    LET Keep(record) == /\ record.manager_name = manager_name
                        /\ record.status = SHIFT_STATUS_PENDING
    IN  SelectSeq(_fetch_shift_records, Keep)

(***************************************************************************)
(* Sessions: what a running handler or gateway call holds                  *)
(***************************************************************************)
NoLoc == [caller |-> "none"]

\* an empty FSM data dict
EmptyData == [k \in {} |-> 0]

Idle(p) == pc[p] = "idle"

\* a call returns to its caller: the handler (or the test harness) reads loc[p].result
Returned(p, result) ==
    /\ pc' = [pc EXCEPT ![p] = "ret"]
    /\ loc' = [loc EXCEPT ![p] = [caller |-> loc[p].caller, op |-> loc[p].op, before |-> loc[p].before,
                                  args |-> loc[p].args, result |-> result]]

InCall(p, op) == pc[p] # "idle" /\ pc[p] # "ret" /\ loc[p].op = op

\* the decision cells (columns H:K) of a sheet row
DecisionCells(row) ==
    [status |-> row.status, approved |-> row.approved, mcomment |-> row.mcomment,
     manager |-> row.manager]

NoCells == [status |-> "none", approved |-> <<>>, mcomment |-> <<>>, manager |-> ""]

\* history of a returned update_shift_status call: the sheet row of its target (0 when
\* none), the status asked for, the changed flag and the status of the record it
\* returned, what became of the accrual, and the target's decision cells as stored
\* when the call returned
LogEntry(row, requested, changed, status, accrual, stored) ==
    [row |-> row, requested |-> requested, changed |-> changed,
     status |-> status, accrual |-> accrual, stored |-> stored]

(***************************************************************************)
(* SheetsGateway.update_shift_status and _append_accrual                   *)
(***************************************************************************)
\* a range write that reaches back to column G and empties the comment
StatusCellsFromG(row, status, approved_at, comment, manager_name) ==
    [row EXCEPT !.comment = <<>>,
                !.status = status,
                !.approved = format_datetime(approved_at),
                !.mcomment = comment,
                !.manager = manager_name]

\* the H:K range write of update_shift_status
StatusCells(row, status, approved_at, comment, manager_name) ==
    [row EXCEPT !.status = status,
                !.approved = format_datetime(approved_at),
                !.mcomment = comment,
                !.manager = manager_name]

\* the ShiftRecord update_shift_status builds after the write
UpdatedRecord(target, status, approved_at, comment, manager_name) ==
    [target EXCEPT !.status = status,
                   !.approved_at = approved_at,
                   !.manager_comment = comment,
                   !.manager_name = manager_name]

\* a guard that lets every decision through
MayDecideAlways(target) == TRUE

\* the guard of update_shift_status (sheets.py line 289): write only a pending target
MayDecide(target) == target.status = SHIFT_STATUS_PENDING

\* an accrual for every decision
NeedsAccrualAlways(status) == TRUE

\* line 317: an accrual is made when the decision approves
NeedsAccrual(status) == status = SHIFT_STATUS_APPROVED

\* lines 284-290: fetch the records, pick the target, return early
StatusRead(p) ==
    /\ pc[p] = "status_read"
    /\ LET a == loc[p].args
           Test(r) == r.shift_id = a.shift_id
           target == First(_fetch_shift_records, Test)
       IN  IF target = None
           THEN /\ Returned(p, [updated |-> None, changed |-> FALSE])
                /\ log' = Append(log, LogEntry(0, a.status, FALSE, "none", "none", NoCells))
           ELSE IF ~MayDecide(target[1])
           THEN /\ Returned(p, [updated |-> target, changed |-> FALSE])
                /\ log' = Append(log, LogEntry(target[1].row_index, a.status, FALSE,
                                              target[1].status, "none",
                                              DecisionCells(shifts[target[1].row_index - 1])))
           ELSE /\ pc' = [pc EXCEPT ![p] = "status_write"]
                /\ loc' = [loc EXCEPT ![p] = [caller |-> loc[p].caller, op |-> loc[p].op, before |-> loc[p].before,
                                              args |-> a, target |-> target[1]]]
                /\ log' = log
    /\ UNCHANGED <<storeVars, botVars, calls, accrualShift, buttons>>

\* lines 291-319: the range write, then the accrual when approving
StatusWrite(p) ==
    /\ pc[p] = "status_write"
    /\ LET a == loc[p].args
           target == loc[p].target
           i == target.row_index - 1
           updated == UpdatedRecord(target, a.status, a.approved_at, a.comment, a.manager_name)
       IN  /\ shifts' = [shifts EXCEPT ![i] =
                            StatusCells(shifts[i], a.status, a.approved_at, a.comment,
                                        a.manager_name)]
           /\ IF NeedsAccrual(a.status)
              THEN /\ pc' = [pc EXCEPT ![p] = "accrual_employee"]
                   /\ loc' = [loc EXCEPT ![p] = [caller |-> loc[p].caller, op |-> loc[p].op, before |-> loc[p].before,
                                                 args |-> a, updated |-> updated]]
                   /\ log' = log
              ELSE /\ Returned(p, [updated |-> <<updated>>, changed |-> TRUE])
                   /\ log' = Append(log, LogEntry(target.row_index, a.status, TRUE,
                                                 a.status, "none",
                                                 DecisionCells(shifts'[i])))
    /\ UNCHANGED <<employees, accruals, today, botVars, calls, accrualShift, buttons>>

\* _append_accrual lines 322-324: the employee is looked up by name, now
AccrualFetchEmployee(p) ==
    /\ pc[p] = "accrual_employee"
    /\ LET a == loc[p].args
           updated == loc[p].updated
           employee == fetch_employee_by_name(updated.employee_name)
       IN  IF employee = None
           THEN /\ Returned(p, [updated |-> <<updated>>, changed |-> TRUE])
                /\ log' = Append(log, LogEntry(updated.row_index, a.status, TRUE,
                                              a.status, "skipped",
                                              DecisionCells(shifts[updated.row_index - 1])))
           ELSE /\ pc' = [pc EXCEPT ![p] = "accrual_next_id"]
                /\ loc' = [loc EXCEPT ![p] = [caller |-> loc[p].caller, op |-> loc[p].op, before |-> loc[p].before,
                                              args |-> a, updated |-> updated,
                                              employee |-> employee[1]]]
                /\ log' = log
    /\ UNCHANGED <<storeVars, botVars, calls, accrualShift, buttons>>

\* _append_accrual lines 325-326
AccrualNextId(p) ==
    /\ pc[p] = "accrual_next_id"
    /\ pc' = [pc EXCEPT ![p] = "accrual_append"]
    /\ loc' = [loc EXCEPT ![p] = [caller |-> loc[p].caller, op |-> loc[p].op, before |-> loc[p].before,
                                  args |-> loc[p].args, updated |-> loc[p].updated,
                                  employee |-> loc[p].employee,
                                  next_id |-> _next_id(accruals)]]
    /\ UNCHANGED <<storeVars, botVars, histVars>>

\* an accrual row that prices the overtime at the shift rate
AccrualRowOneRate(next_id, shift, employee) ==
    LET shift_sum == shift.shift_hours * employee.shift_rate
        overtime_sum == shift.overtime_hours * employee.shift_rate
    IN  [id |-> next_id,
         name |-> employee.name,
         date |-> format_date(shift.shift_date),
         overtime |-> shift.overtime_hours,
         shift_rate |-> employee.shift_rate,
         overtime_rate |-> employee.overtime_rate,
         shift_sum |-> shift_sum,
         overtime_sum |-> overtime_sum,
         total_sum |-> shift_sum + overtime_sum]

\* _append_accrual lines 327-339: the row
AccrualRow(next_id, shift, employee) ==
    LET shift_sum == shift.shift_hours * employee.shift_rate
        overtime_sum == shift.overtime_hours * employee.overtime_rate
    IN  [id |-> next_id,
         name |-> employee.name,
         date |-> format_date(shift.shift_date),
         overtime |-> shift.overtime_hours,
         shift_rate |-> employee.shift_rate,
         overtime_rate |-> employee.overtime_rate,
         shift_sum |-> shift_sum,
         overtime_sum |-> overtime_sum,
         total_sum |-> shift_sum + overtime_sum]

\* _append_accrual line 340, and the return of update_shift_status
AccrualAppend(p) ==
    /\ pc[p] = "accrual_append"
    /\ LET a == loc[p].args
           updated == loc[p].updated
       IN  /\ accruals' = Append(accruals, AccrualRow(loc[p].next_id, updated, loc[p].employee))
           /\ accrualShift' = Append(accrualShift, updated.row_index)
           /\ Returned(p, [updated |-> <<updated>>, changed |-> TRUE])
           /\ log' = Append(log, LogEntry(updated.row_index, a.status, TRUE,
                                         a.status, "appended",
                                         DecisionCells(shifts[updated.row_index - 1])))
    /\ UNCHANGED <<employees, shifts, today, botVars, calls, buttons>>

(***************************************************************************)
(* SheetsGateway.append_shift                                              *)
(***************************************************************************)
\* line 168
AppendNextId(p) ==
    /\ pc[p] = "append_next_id"
    /\ pc' = [pc EXCEPT ![p] = "append_row"]
    /\ loc' = [loc EXCEPT ![p] = [caller |-> loc[p].caller, op |-> loc[p].op, before |-> loc[p].before,
                                  args |-> loc[p].args, next_id |-> _next_id(shifts)]]
    /\ UNCHANGED <<storeVars, botVars, histVars>>

\* lines 169-181: the row append_shift writes
ShiftRow(next_id, shift) ==
    [id |-> next_id,
     name |-> shift.employee_name,
     date |-> format_date(shift.shift_date),
     overtime |-> shift.overtime_hours,
     hours |-> shift.shift_hours,
     comment |-> shift.comment,
     submitted |-> format_datetime(shift.submitted_at),
     status |-> SHIFT_STATUS_PENDING,
     approved |-> <<>>,
     mcomment |-> <<>>,
     manager |-> IF shift.manager_name = NoneStr THEN "" ELSE shift.manager_name]

\* lines 182-183
AppendRow(p) ==
    /\ pc[p] = "append_row"
    /\ shifts' = Append(shifts, ShiftRow(loc[p].next_id, loc[p].args))
    /\ Returned(p, [shift_id |-> loc[p].next_id])
    /\ UNCHANGED <<employees, accruals, today, botVars, histVars>>

(***************************************************************************)
(* SheetsGateway.update_shift_details                                      *)
(***************************************************************************)
\* lines 253-259
DetailsRead(p) ==
    /\ pc[p] = "details_read"
    /\ LET a == loc[p].args
           editable == get_editable_shift(a.employee_name, a.shift_id,
                                          a.max_days_since_submission)
       IN  IF editable = None
           THEN Returned(p, [ok |-> FALSE])
           ELSE /\ pc' = [pc EXCEPT ![p] = "details_write"]
                /\ loc' = [loc EXCEPT ![p] = [caller |-> loc[p].caller, op |-> loc[p].op, before |-> loc[p].before,
                                              args |-> a, row_idx |-> editable[1].row_index]]
    /\ UNCHANGED <<storeVars, botVars, histVars>>

\* the C:G range write of update_shift_details
DetailCells(row, updated) ==
    [row EXCEPT !.date = format_date(updated.shift_date),
                !.overtime = updated.overtime_hours,
                !.hours = updated.shift_hours,
                !.comment = updated.comment,
                !.submitted = format_datetime(updated.submitted_at)]

\* lines 260-274
DetailsWrite(p) ==
    /\ pc[p] = "details_write"
    /\ LET i == loc[p].row_idx - 1
       IN  shifts' = [shifts EXCEPT ![i] = DetailCells(shifts[i], loc[p].args.updated)]
    /\ Returned(p, [ok |-> TRUE])
    /\ UNCHANGED <<employees, accruals, today, botVars, histVars>>

\* the awaited steps of the gateway, for the session that stands before them
GatewayStep(p) ==
    \/ StatusRead(p)
    \/ StatusWrite(p)
    \/ AccrualFetchEmployee(p)
    \/ AccrualNextId(p)
    \/ AccrualAppend(p)
    \/ AppendNextId(p)
    \/ AppendRow(p)
    \/ DetailsRead(p)
    \/ DetailsWrite(p)

(***************************************************************************)
(* Inputs                                                                  *)
(***************************************************************************)
StaffNames == {"ann", "bob"}
ManagerNames == {"max", "mia"}

\* the values a shift form is filled with: the shift's date as days before today, the
\* hours, the comment as typed, and the second of the day it is sent at
Forms == { [days_back |-> 0, shift_hours |-> 8, overtime_hours |-> 2,
            comment |-> <<"o", "k">>, tod |-> 0],
           [days_back |-> 1, shift_hours |-> 4, overtime_hours |-> 0,
            comment |-> <<" ", "o", "k">>, tod |-> 30] }

\* the decisions a manager sends
Decisions == { [status |-> SHIFT_STATUS_APPROVED, manager_name |-> "max",
                comment |-> <<>>, tod |-> 0],
               [status |-> SHIFT_STATUS_DECLINED, manager_name |-> "mia",
                comment |-> <<"n", "o">>, tod |-> 30] }

\* ShiftInput
ShiftInput(employee_name, form, manager_name) ==
    [employee_name |-> employee_name,
     shift_date |-> today - form.days_back,
     shift_hours |-> form.shift_hours,
     overtime_hours |-> form.overtime_hours,
     comment |-> form.comment,
     submitted_at |-> <<today, form.tod>>,
     manager_name |-> manager_name]

\* rows found in the sheet at start: one submitted exactly EDIT_MAX_DAYS ago, and one
\* written without a submission timestamp whose shift date is that day
EdgeRow ==
    [id |-> 1, name |-> "bob", date |-> format_date(Today0), overtime |-> 0, hours |-> 8,
     comment |-> <<>>, submitted |-> format_datetime(<<Today0 - EDIT_MAX_DAYS, 0>>),
     status |-> SHIFT_STATUS_PENDING, approved |-> <<>>, mcomment |-> <<>>,
     manager |-> "max"]

LegacyRow ==
    [id |-> 1, name |-> "ann", date |-> format_date(Today0 - EDIT_MAX_DAYS), overtime |-> 2,
     hours |-> 8, comment |-> <<>>, submitted |-> <<>>,
     status |-> SHIFT_STATUS_PENDING, approved |-> <<>>, mcomment |-> <<>>,
     manager |-> "max"]

InitialShiftSheets == { <<>>, <<EdgeRow>>, <<LegacyRow>> }

(***************************************************************************)
(* Direct calls of the gateway (a caller other than a handler)             *)
(***************************************************************************)
Pending(op) == Cardinality({ q \in Sessions : InCall(q, op) })

CallAs(p, caller, op, first, args) ==
    /\ Idle(p)
    /\ calls < MaxCalls
    /\ calls' = calls + 1
    /\ pc' = [pc EXCEPT ![p] = first]
    /\ loc' = [loc EXCEPT ![p] = [caller |-> caller, op |-> op, before |-> shifts,
                                  args |-> args]]

Call(p, op, first, args) == CallAs(p, "api", op, first, args)

ApiAppendShift(p) ==
    /\ Len(shifts) + Pending("append_shift") < MaxShifts
    /\ \E n \in StaffNames, f \in Forms :
          Call(p, "append_shift", "append_next_id",
               ShiftInput(n, f, IF n = "ann" THEN "max" ELSE NoneStr))
    /\ UNCHANGED <<storeVars, botVars, log, accrualShift, buttons>>

ApiUpdateShiftDetails(p) ==
    /\ \E n \in StaffNames, id \in 1..MaxShifts, f \in Forms :
          Call(p, "update_shift_details", "details_read",
               [shift_id |-> id, employee_name |-> n,
                updated |-> ShiftInput(n, f, NoneStr),
                max_days_since_submission |-> EDIT_MAX_DAYS])
    /\ UNCHANGED <<storeVars, botVars, log, accrualShift, buttons>>

ApiUpdateShiftStatus(p) ==
    /\ \E id \in 1..MaxShifts, d \in Decisions :
          Call(p, "update_shift_status", "status_read",
               [shift_id |-> id, status |-> d.status, manager_name |-> d.manager_name,
                comment |-> d.comment, approved_at |-> <<today, d.tod>>])
    /\ UNCHANGED <<storeVars, botVars, log, accrualShift, buttons>>

ApiReturn(p) ==
    /\ pc[p] = "ret"
    /\ loc[p].caller = "api"
    /\ pc' = [pc EXCEPT ![p] = "idle"]
    /\ loc' = [loc EXCEPT ![p] = NoLoc]
    /\ UNCHANGED <<storeVars, botVars, histVars>>

ApiStep(p) ==
    \/ ApiAppendShift(p)
    \/ ApiUpdateShiftDetails(p)
    \/ ApiUpdateShiftStatus(p)
    \/ ApiReturn(p)

(***************************************************************************)
(* The environment: the calendar and the administrator's edits             *)
(***************************************************************************)
Tick ==
    /\ today < Today0 + MaxTicks
    /\ today' = today + 1
    /\ UNCHANGED <<employees, shifts, accruals, pc, loc, botVars, histVars>>

EditEmployees ==
    /\ \E sheet \in EmployeeSheets \ {employees} : employees' = sheet
    /\ UNCHANGED <<shifts, accruals, today, pc, loc, botVars, histVars>>

(***************************************************************************)
(* Specifications                                                          *)
(***************************************************************************)
Init ==
    /\ employees \in EmployeeSheets
    /\ shifts \in InitialShiftSheets
    /\ accruals = <<>>
    /\ today = Today0
    /\ pc = [p \in Sessions |-> "idle"]
    /\ loc = [p \in Sessions |-> NoLoc]
    /\ users = [p \in Sessions |-> None]
    /\ state = [p \in Sessions |-> "idle"]
    /\ data = [p \in Sessions |-> EmptyData]
    /\ reply = [p \in Sessions |-> <<"none">>]
    /\ calls = 0
    /\ log = <<>>
    /\ accrualShift = <<>>
    /\ buttons = [p \in Sessions |-> {}]

\* gateway calls of independent sessions, interleaved at every await, over a store
\* that nobody else touches meanwhile
Next ==
    \/ \E p \in Sessions : GatewayStep(p)
    \/ \E p \in Sessions : ApiStep(p)

Spec == Init /\ [][Next]_vars

\* no session stands inside a gateway call
Quiet == \A q \in Sessions : pc[q] \in {"idle", "ret"}

\* the same calls, one at a time, all made by one caller (the gateway keeps nothing
\* per caller); the environment moves between calls
Caller == CHOOSE p \in Sessions : \A q \in Sessions : p <= q

SeqNext ==
    \/ \E p \in {Caller} : GatewayStep(p)
    \/ \E p \in {Caller} : ApiStep(p)
    \/ Quiet /\ Tick
    \/ Quiet /\ EditEmployees

SeqSpec == Init /\ [][SeqNext]_vars

(***************************************************************************)
(* __main__.py: the registry, the conversation state and the handlers      *)
(*                                                                         *)
(* A message text is a typed value: <<"d", day>> is the text of a date,    *)
(* and any other text is the sequence of its characters (Num(v) is the     *)
(* decimal text of v).  An event of a session is taken only when the       *)
(* session runs no handler (the transport delivers the events of one       *)
(* session one at a time).                                                 *)
(***************************************************************************)
SKIP_COMMENT == <<"S", "K", "I", "P">>
JunkText == <<"?">>

\* the texts of the two menu buttons that open a flow
ADD_MENU == <<"menu", "add">>
EDIT_MENU == <<"menu", "edit">>

\* the form an employee types into the edit flow, and the time of day it is sent
EditForm == CHOOSE f \in Forms : f.days_back = 1

\* the form an employee types into the submission flow
SubmitForm == CHOOSE f \in Forms : f.days_back = 0

ShiftFormStates ==
    {"ShiftForm.date", "ShiftForm.shift_hours", "ShiftForm.overtime_hours",
     "ShiftForm.comment"}
ShiftEditStates ==
    {"ShiftEdit.select_shift", "ShiftEdit.date", "ShiftEdit.shift_hours",
     "ShiftEdit.overtime_hours", "ShiftEdit.comment"}

\* FSMContext.update_data: the given keys are set, the others kept
UpdateData(d, upd) ==
    [k \in DOMAIN d \cup DOMAIN upd |-> IF k \in DOMAIN upd THEN upd[k] ELSE d[k]]

\* a clear that clears nothing
NotCleared(p) == UNCHANGED <<state, data>>

\* FSMContext.clear for session p: the state and the data
Cleared(p) ==
    /\ state' = [state EXCEPT ![p] = "idle"]
    /\ data' = [data EXCEPT ![p] = EmptyData]

Answer(p, r) == reply' = [reply EXCEPT ![p] = r]

\* the phone number the account of a session shares, as the transport gives it:
\* "0500000001" and "+380500000009"
ContactPhone(p) ==
    IF p = 1 THEN <<"0", "5", "0", "0", "0", "0", "0", "0", "0", "1">>
    ELSE <<"+", "3", "8", "0", "5", "0", "0", "0", "0", "0", "0", "0", "9">>

\* str.startswith on texts
StartsWith(s, prefix) ==
    Len(s) >= Len(prefix) /\ SubSeq(s, 1, Len(prefix)) = prefix

\* a text as the string a cell of the sheet holds
RECURSIVE Str(_)
Str(s) == IF s = <<>> THEN "" ELSE Head(s) \o Str(Tail(s))

\* a sanitize_phone that never puts the country code in front
sanitize_phone_no_prefix(raw) ==
    IF raw = <<>> THEN None
    ELSE LET IsDigit(c) == c \in DigitChars
             digits == SelectSeq(raw, IsDigit)
         IN  IF StartsWith(digits, <<"3", "8", "0">>) THEN digits
             ELSE IF digits = <<>> THEN None ELSE digits

\* sanitize_phone (lines 43-51) on a text; None and the empty text are both <<>>
sanitize_phone(raw) ==
    IF raw = <<>> THEN None
    ELSE LET IsDigit(c) == c \in DigitChars
             extracted == SelectSeq(raw, IsDigit)
             digits == IF StartsWith(extracted, <<"0">>) /\ Len(extracted) = 10
                       THEN <<"3", "8">> \o extracted
                       ELSE extracted
         IN  IF StartsWith(digits, <<"3", "8", "0">>) THEN digits
             ELSE IF digits = <<>> THEN None ELSE digits

\* the comment a comment state takes from a message
CommentOf(text) == IF text = SKIP_COMMENT THEN <<>> ELSE text

\* date.isoformat / date.fromisoformat
isoformat(day) == <<"iso", day>>
fromisoformat_off_by_one(text) == text[2] + 1
fromisoformat(text) == text[2]

\* a /start that answers and leaves the conversation where it is
HandleStartInPlace(p) ==
    /\ Idle(p)
    /\ Answer(p, IF users[p] # None THEN <<"welcome">> ELSE <<"share_contact">>)
    /\ UNCHANGED <<storeVars, pc, loc, users, state, data, histVars>>

\* lines 76-89
HandleStart(p) ==
    /\ Idle(p)
    /\ Cleared(p)
    /\ Answer(p, IF users[p] # None THEN <<"welcome">> ELSE <<"share_contact">>)
    /\ UNCHANGED <<storeVars, pc, loc, users, histVars>>

\* a login that keeps the mapping a session already has
handle_contact_keep_first(p, raw, foreign) ==
    /\ Idle(p)
    /\ Cleared(p)
    /\ LET phone == sanitize_phone(raw)
           employee == fetch_employee_by_phone(Str(phone))
       IN  IF foreign
           THEN Answer(p, <<"own_contact_needed">>) /\ users' = users
           ELSE IF phone = None
           THEN Answer(p, <<"bad_number">>) /\ users' = users
           ELSE IF employee = None
           THEN Answer(p, <<"unknown_number">>) /\ users' = users
           ELSE /\ users' = [users EXCEPT ![p] = IF @ = None THEN employee ELSE @]
                /\ Answer(p, <<"welcome">>)
    /\ UNCHANGED <<storeVars, pc, loc, histVars>>

\* a login that leaves the conversation of the session where it is
handle_contact_keep_state(p, raw, foreign) ==
    /\ Idle(p)
    /\ LET phone == sanitize_phone(raw)
           employee == fetch_employee_by_phone(Str(phone))
       IN  IF foreign
           THEN Answer(p, <<"own_contact_needed">>) /\ users' = users
           ELSE IF phone = None
           THEN Answer(p, <<"bad_number">>) /\ users' = users
           ELSE IF employee = None
           THEN Answer(p, <<"unknown_number">>) /\ users' = users
           ELSE /\ users' = [users EXCEPT ![p] = employee]
                /\ Answer(p, <<"welcome">>)
    /\ UNCHANGED <<storeVars, pc, loc, state, data, histVars>>

\* lines 91-119; raw: the phone number of the contact; foreign: the contact carries the
\* user id of another account
handle_contact(p, raw, foreign) ==
    /\ Idle(p)
    /\ Cleared(p)
    /\ LET phone == sanitize_phone(raw)
           employee == fetch_employee_by_phone(Str(phone))
       IN  IF foreign
           THEN Answer(p, <<"own_contact_needed">>) /\ users' = users
           ELSE IF phone = None
           THEN Answer(p, <<"bad_number">>) /\ users' = users
           ELSE IF employee = None
           THEN Answer(p, <<"unknown_number">>) /\ users' = users
           ELSE /\ users' = [users EXCEPT ![p] = employee]
                /\ Answer(p, <<"welcome">>)
    /\ UNCHANGED <<storeVars, pc, loc, histVars>>

\* the contact an account shares is its own number, or it is turned down as foreign
HandleContact(p) ==
    \E foreign \in BOOLEAN : handle_contact(p, ContactPhone(p), foreign)

\* lines 121-131: the menu command that opens the submission flow; it is registered
\* before every state handler, so it is taken in every state
RequestShiftDate(p) ==
    /\ Idle(p)
    /\ IF users[p] = None
       THEN /\ Answer(p, <<"share_contact">>)
            /\ UNCHANGED <<state, data>>
       ELSE /\ state' = [state EXCEPT ![p] = "ShiftForm.date"]
            /\ data' = [data EXCEPT ![p] =
                    UpdateData(@, [employee_name |-> users[p][1].name,
                                   manager |-> users[p][1].manager_name])]
            /\ Answer(p, <<"ask_shift_date">>)
    /\ UNCHANGED <<storeVars, pc, loc, users, histVars>>

\* lines 133-141
handle_shift_date(p, text) ==
    /\ Idle(p)
    /\ state[p] = "ShiftForm.date"
    /\ LET shift_date == parse_user_date(text)
       IN  IF shift_date = None
           THEN Answer(p, <<"bad_date">>) /\ UNCHANGED <<state, data>>
           ELSE /\ data' = [data EXCEPT ![p] =
                        UpdateData(@, [shift_date |-> isoformat(shift_date[1])])]
                /\ state' = [state EXCEPT ![p] = "ShiftForm.shift_hours"]
                /\ Answer(p, <<"ask_shift_hours">>)
    /\ UNCHANGED <<storeVars, pc, loc, users, histVars>>

\* lines 143-151
handle_shift_hours(p, text) ==
    /\ Idle(p)
    /\ state[p] = "ShiftForm.shift_hours"
    /\ LET hours == parse_hours(text)
       IN  IF hours = None
           THEN Answer(p, <<"bad_hours">>) /\ UNCHANGED <<state, data>>
           ELSE /\ data' = [data EXCEPT ![p] = UpdateData(@, [shift_hours |-> hours[1]])]
                /\ state' = [state EXCEPT ![p] = "ShiftForm.overtime_hours"]
                /\ Answer(p, <<"ask_shift_overtime">>)
    /\ UNCHANGED <<storeVars, pc, loc, users, histVars>>

\* lines 153-164
handle_overtime_hours(p, text) ==
    /\ Idle(p)
    /\ state[p] = "ShiftForm.overtime_hours"
    /\ LET hours == parse_hours(text)
       IN  IF hours = None
           THEN Answer(p, <<"bad_overtime">>) /\ UNCHANGED <<state, data>>
           ELSE /\ data' = [data EXCEPT ![p] =
                        UpdateData(@, [overtime_hours |-> hours[1]])]
                /\ state' = [state EXCEPT ![p] = "ShiftForm.comment"]
                /\ Answer(p, <<"ask_shift_comment">>)
    /\ UNCHANGED <<storeVars, pc, loc, users, histVars>>

\* lines 166-182: up to the awaited append_shift
handle_shift_comment(p, text) ==
    /\ Idle(p)
    /\ state[p] = "ShiftForm.comment"
    /\ IF users[p] = None
       THEN /\ Answer(p, <<"share_contact">>)
            /\ UNCHANGED <<state, data, pc, loc, calls>>
       ELSE LET employee == users[p][1]
                shift == [employee_name |-> employee.name,
                          shift_date |-> fromisoformat(data[p].shift_date),
                          shift_hours |-> data[p].shift_hours,
                          overtime_hours |-> data[p].overtime_hours,
                          comment |-> CommentOf(text),
                          submitted_at |-> <<today, SubmitForm.tod>>,
                          manager_name |-> employee.manager_name]
            IN  /\ calls < MaxBotCalls
                /\ Len(shifts) + Pending("append_shift") < MaxShifts
                /\ CallAs(p, "handle_shift_comment", "append_shift", "append_next_id", shift)
                /\ UNCHANGED <<state, data, reply>>
    /\ UNCHANGED <<storeVars, users, log, accrualShift, buttons>>

\* the messages the states of the submission flow receive; the text of the edit menu
\* button is among them, because these handlers are registered before
\* start_editing_shift
SubmitHoursTexts == {Num(SubmitForm.shift_hours), Num(-1), EDIT_MENU}
SubmitOvertimeTexts == {Num(SubmitForm.overtime_hours), Num(-1), EDIT_MENU}
SubmitCommentTexts == {SubmitForm.comment, SKIP_COMMENT, EDIT_MENU}

HandleShiftDate(p) ==
    \E text \in {format_date(today - SubmitForm.days_back), JunkText, EDIT_MENU} :
        handle_shift_date(p, text)

HandleShiftHours(p) ==
    \E text \in SubmitHoursTexts :
        handle_shift_hours(p, text)

HandleOvertimeHours(p) ==
    \E text \in SubmitOvertimeTexts :
        handle_overtime_hours(p, text)

HandleShiftComment(p) ==
    \E text \in SubmitCommentTexts :
        handle_shift_comment(p, text)

\* lines 183-188: after append_shift has returned
HandleShiftCommentDone(p) ==
    /\ pc[p] = "ret"
    /\ loc[p].caller = "handle_shift_comment"
    /\ Cleared(p)
    /\ Answer(p, <<"shift_saved", loc[p].result.shift_id>>)
    /\ pc' = [pc EXCEPT ![p] = "idle"]
    /\ loc' = [loc EXCEPT ![p] = NoLoc]
    /\ UNCHANGED <<storeVars, users, histVars>>

\* lines 190-217: the menu command that opens the edit flow; the states of the
\* submission flow take its text first (their handlers are registered before it)
StartEditingShift(p) ==
    /\ Idle(p)
    /\ state[p] \notin ShiftFormStates
    /\ IF users[p] = None
       THEN /\ Answer(p, <<"share_contact">>)
            /\ UNCHANGED <<state, data>>
       ELSE IF get_employee_shifts(users[p][1].name, EDIT_MAX_DAYS, TRUE) = <<>>
       THEN /\ Cleared(p)
            /\ Answer(p, <<"nothing_to_edit">>)
       ELSE /\ state' = [state EXCEPT ![p] = "ShiftEdit.select_shift"]
            /\ data' = [data EXCEPT ![p] = EmptyData]
            /\ Answer(p, <<"choose_shift">>)
    /\ UNCHANGED <<storeVars, pc, loc, users, histVars>>

\* text.replace("#", "").strip(), .isdigit() and int(): the number, or None
ShiftIdOf(text) ==
    LET NotHash(c) == c # "#"
        digits == Strip(SelectSeq(text, NotHash))
    IN  IF digits = <<>> \/ ~IsDigits(digits) THEN None ELSE <<IntOf(digits)>>

\* the texts select_shift is sent: "#1", the decimal text of MaxShifts, and no number
SelectionTexts == {<<"#", "1">>, Num(MaxShifts), JunkText}

\* the texts the hours states of the edit flow are sent
EditHoursTexts == {Num(EditForm.shift_hours), Num(-1), JunkText}
EditOvertimeTexts == {Num(EditForm.overtime_hours), Num(-1)}

\* lines 219-249
handle_edit_selection(p, text) ==
    /\ Idle(p)
    /\ state[p] = "ShiftEdit.select_shift"
    /\ IF users[p] = None
        THEN Cleared(p) /\ Answer(p, <<"share_contact">>)
        ELSE IF ShiftIdOf(text) = None
        THEN Answer(p, <<"number_needed">>) /\ UNCHANGED <<state, data>>
        ELSE LET shift_id == ShiftIdOf(text)[1]
                 record == get_editable_shift(users[p][1].name, shift_id, EDIT_MAX_DAYS)
             IN  IF record = None
                 THEN Answer(p, <<"not_editable">>) /\ UNCHANGED <<state, data>>
                 ELSE /\ data' = [data EXCEPT ![p] =
                              UpdateData(@, [edit_shift_id |-> shift_id,
                                             previous_shift_hours |-> record[1].shift_hours,
                                             previous_overtime_hours |-> record[1].overtime_hours,
                                             previous_comment |-> record[1].comment])]
                      /\ state' = [state EXCEPT ![p] = "ShiftEdit.date"]
                      /\ Answer(p, <<"ask_date", record[1].shift_date>>)
    /\ UNCHANGED <<storeVars, pc, loc, users, histVars>>

HandleEditSelection(p) ==
    \E text \in SelectionTexts :
        handle_edit_selection(p, text)

\* lines 251-264
handle_edit_date(p, text) ==
    /\ Idle(p)
    /\ state[p] = "ShiftEdit.date"
    /\ LET shift_date == parse_user_date(text)
        IN  IF shift_date = None
            THEN Answer(p, <<"bad_date">>) /\ UNCHANGED <<state, data>>
            ELSE /\ data' = [data EXCEPT ![p] =
                         UpdateData(@, [edit_shift_date |-> isoformat(shift_date[1])])]
                 /\ state' = [state EXCEPT ![p] = "ShiftEdit.shift_hours"]
                 /\ Answer(p, <<"ask_hours", data[p].previous_shift_hours>>)
    /\ UNCHANGED <<storeVars, pc, loc, users, histVars>>

HandleEditDate(p) ==
    \E text \in {format_date(today - EditForm.days_back), JunkText} :
        handle_edit_date(p, text)

\* lines 266-281
handle_edit_shift_hours(p, text) ==
    /\ Idle(p)
    /\ state[p] = "ShiftEdit.shift_hours"
    /\ LET hours == parse_hours(text)
        IN  IF hours = None
            THEN Answer(p, <<"bad_hours">>) /\ UNCHANGED <<state, data>>
            ELSE /\ data' = [data EXCEPT ![p] =
                         UpdateData(@, [edit_shift_hours |-> hours[1]])]
                 /\ state' = [state EXCEPT ![p] = "ShiftEdit.overtime_hours"]
                 /\ Answer(p, <<"ask_overtime", data[p].previous_overtime_hours>>)
    /\ UNCHANGED <<storeVars, pc, loc, users, histVars>>

HandleEditShiftHours(p) ==
    \E text \in EditHoursTexts :
        handle_edit_shift_hours(p, text)

\* lines 283-296
handle_edit_overtime_hours(p, text) ==
    /\ Idle(p)
    /\ state[p] = "ShiftEdit.overtime_hours"
    /\ LET hours == parse_hours(text)
        IN  IF hours = None
            THEN Answer(p, <<"bad_overtime">>) /\ UNCHANGED <<state, data>>
            ELSE /\ data' = [data EXCEPT ![p] =
                         UpdateData(@, [edit_overtime_hours |-> hours[1]])]
                 /\ state' = [state EXCEPT ![p] = "ShiftEdit.comment"]
                 /\ Answer(p, <<"ask_comment", data[p].previous_comment>>)
    /\ UNCHANGED <<storeVars, pc, loc, users, histVars>>

HandleEditOvertimeHours(p) ==
    \E text \in EditOvertimeTexts :
        handle_edit_overtime_hours(p, text)

\* lines 298-338: up to the awaited update_shift_details
FinalizeShiftEdit(p) ==
    /\ Idle(p)
    /\ state[p] = "ShiftEdit.comment"
    /\ \E text \in {EditForm.comment, SKIP_COMMENT} :
          IF users[p] = None
          THEN /\ Cleared(p)
               /\ Answer(p, <<"share_contact">>)
               /\ UNCHANGED <<pc, loc, calls>>
          ELSE IF "edit_shift_id" \notin DOMAIN data[p]
          THEN /\ Cleared(p)
               /\ Answer(p, <<"shift_not_found">>)
               /\ UNCHANGED <<pc, loc, calls>>
          ELSE IF "edit_shift_date" \notin DOMAIN data[p]
          THEN /\ Cleared(p)
               /\ Answer(p, <<"not_saved">>)
               /\ UNCHANGED <<pc, loc, calls>>
          ELSE LET employee == users[p][1]
                   shift == [employee_name |-> employee.name,
                             shift_date |-> fromisoformat(data[p].edit_shift_date),
                             shift_hours |-> data[p].edit_shift_hours,
                             overtime_hours |-> data[p].edit_overtime_hours,
                             comment |-> CommentOf(text),
                             submitted_at |-> <<today, EditForm.tod>>,
                             manager_name |-> employee.manager_name]
               IN  /\ calls < MaxBotCalls
                   /\ CallAs(p, "finalize_shift_edit", "update_shift_details", "details_read",
                             [shift_id |-> data[p].edit_shift_id,
                              employee_name |-> employee.name,
                              updated |-> shift,
                              max_days_since_submission |-> EDIT_MAX_DAYS])
                   /\ UNCHANGED <<state, data, reply>>
    /\ UNCHANGED <<storeVars, users, log, accrualShift, buttons>>

\* lines 339-349: after update_shift_details has returned
FinalizeShiftEditDone(p) ==
    /\ pc[p] = "ret"
    /\ loc[p].caller = "finalize_shift_edit"
    /\ Cleared(p)
    /\ Answer(p, IF ~loc[p].result.ok THEN <<"edit_failed">>
                 ELSE <<"edit_saved", loc[p].args.shift_id>>)
    /\ pc' = [pc EXCEPT ![p] = "idle"]
    /\ loc' = [loc EXCEPT ![p] = NoLoc]
    /\ UNCHANGED <<storeVars, users, histVars>>

\* lines 407-423: the press of an approve / decline button; the buttons stay under the
\* messages of a chat, also when the employee of the session has changed since
handle_manager_decision(p, action, shift_id) ==
    /\ Idle(p)
    /\ IF users[p] = None \/ ~is_manager(users[p][1])
       THEN Answer(p, <<"no_rights">>) /\ UNCHANGED <<state, data>>
       ELSE /\ state' = [state EXCEPT ![p] = "ManagerComment.comment"]
            /\ data' = [data EXCEPT ![p] =
                    UpdateData(@, [manager_action |-> action, shift_id |-> shift_id])]
            /\ Answer(p, <<"ask_decision_comment">>)
    /\ UNCHANGED <<storeVars, pc, loc, users, histVars>>

\* a callback query with any approve / decline data
HandleManagerDecision(p) ==
    \E action \in {"approve", "decline"}, shift_id \in 1..MaxShifts :
        handle_manager_decision(p, action, shift_id)

\* the press of a button that stands in the chat of the session
PressDecisionButton(p) ==
    \E action \in {"approve", "decline"}, shift_id \in buttons[p] :
        handle_manager_decision(p, action, shift_id)

\* lines 425-444: up to the awaited update_shift_status
FinalizeManagerDecision(p) ==
    /\ Idle(p)
    /\ state[p] = "ManagerComment.comment"
    /\ \E text \in {<<"n", "o">>, SKIP_COMMENT} :
          IF users[p] = None \/ ~is_manager(users[p][1])
          THEN /\ Cleared(p)
               /\ Answer(p, IF users[p] = None THEN <<"share_contact">> ELSE reply[p])
               /\ UNCHANGED <<pc, loc, calls>>
          ELSE /\ calls < MaxBotCalls
               /\ CallAs(p, "finalize_manager_decision", "update_shift_status", "status_read",
                         [shift_id |-> data[p].shift_id,
                          status |-> IF data[p].manager_action = "approve"
                                     THEN SHIFT_STATUS_APPROVED
                                     ELSE SHIFT_STATUS_DECLINED,
                          manager_name |-> users[p][1].name,
                          comment |-> CommentOf(text),
                          approved_at |-> <<today, EditForm.tod>>])
               /\ UNCHANGED <<state, data, reply>>
    /\ UNCHANGED <<storeVars, users, log, accrualShift, buttons>>

\* an ending that always reports the decision as applied
FinalizeManagerDecisionDoneApplied(p) ==
    /\ pc[p] = "ret"
    /\ loc[p].caller = "finalize_manager_decision"
    /\ Cleared(p)
    /\ Answer(p, <<"status_changed", loc[p].args.status>>)
    /\ pc' = [pc EXCEPT ![p] = "idle"]
    /\ loc' = [loc EXCEPT ![p] = NoLoc]
    /\ UNCHANGED <<storeVars, users, histVars>>

\* lines 445-458: after update_shift_status has returned
FinalizeManagerDecisionDone(p) ==
    /\ pc[p] = "ret"
    /\ loc[p].caller = "finalize_manager_decision"
    /\ Cleared(p)
    /\ Answer(p, IF loc[p].result.updated = None THEN <<"shift_not_found">>
                 ELSE IF ~loc[p].result.changed
                 THEN <<"already_has_status", loc[p].result.updated[1].status>>
                 ELSE <<"status_changed", loc[p].args.status>>)
    /\ pc' = [pc EXCEPT ![p] = "idle"]
    /\ loc' = [loc EXCEPT ![p] = NoLoc]
    /\ UNCHANGED <<storeVars, users, histVars>>

\* lines 387-405: the manager's menu command that lists the pending shifts; the states
\* of the submission and of the edit flow take its text first
handle_manager_pending(p) ==
    /\ Idle(p)
    /\ state[p] \notin ShiftFormStates \cup ShiftEditStates
    /\ Answer(p, IF users[p] = None \/ ~is_manager(users[p][1]) THEN <<"managers_only">>
                 ELSE <<"pending_list", Len(get_pending_for_manager(users[p][1].name))>>)
    /\ UNCHANGED <<storeVars, pc, loc, users, state, data, calls, log, accrualShift>>

\* line 405: the shift ids of the keyboards handle_manager_pending sends
manager_decision_keyboards(p) ==
    IF users[p] = None \/ ~is_manager(users[p][1]) THEN {}
    ELSE LET pending == get_pending_for_manager(users[p][1].name)
         IN  { pending[i].shift_id : i \in 1..Len(pending) }

\* the command, the chat not followed
HandleManagerPending(p) ==
    handle_manager_pending(p) /\ UNCHANGED buttons

\* the command, the keyboards it sends staying in the chat
ShowManagerPending(p) ==
    /\ handle_manager_pending(p)
    /\ buttons' = [buttons EXCEPT ![p] = @ \cup manager_decision_keyboards(p)]

\* lines 460-482: the manager's menu commands registered after every state handler
\* (the subordinates, the link of the sheet); only a session in no state gets them
HandleSubordinates(p) ==
    /\ Idle(p)
    /\ state[p] = "idle"
    /\ Answer(p, IF users[p] = None \/ ~is_manager(users[p][1]) THEN <<"managers_only">>
                 ELSE <<"subordinates">>)
    /\ UNCHANGED <<storeVars, pc, loc, users, state, data, histVars>>

\* the step the text of the edit menu button makes: the handlers are tried in the
\* order of their registration (lines 121-217)
EditCommand(p) ==
    IF state[p] = "ShiftForm.date" THEN handle_shift_date(p, EDIT_MENU)
    ELSE IF state[p] = "ShiftForm.shift_hours" THEN handle_shift_hours(p, EDIT_MENU)
    ELSE IF state[p] = "ShiftForm.overtime_hours" THEN handle_overtime_hours(p, EDIT_MENU)
    ELSE IF state[p] = "ShiftForm.comment" THEN handle_shift_comment(p, EDIT_MENU)
    ELSE StartEditingShift(p)

Handler(p) ==
    \/ HandleStart(p)
    \/ HandleContact(p)
    \/ RequestShiftDate(p)
    \/ HandleShiftDate(p)
    \/ HandleShiftHours(p)
    \/ HandleOvertimeHours(p)
    \/ HandleShiftComment(p)
    \/ HandleShiftCommentDone(p)
    \/ StartEditingShift(p)
    \/ HandleEditSelection(p)
    \/ HandleEditDate(p)
    \/ HandleEditShiftHours(p)
    \/ HandleEditOvertimeHours(p)
    \/ FinalizeShiftEdit(p)
    \/ FinalizeShiftEditDone(p)
    \/ HandleManagerDecision(p)
    \/ FinalizeManagerDecision(p)
    \/ FinalizeManagerDecisionDone(p)
    \/ HandleManagerPending(p)
    \/ HandleSubordinates(p)

\* the handlers of the edit and of the decision conversation, with /start and the
\* contact
EditOrDecisionHandler(p) ==
    \/ HandleStart(p)
    \/ HandleContact(p)
    \/ StartEditingShift(p)
    \/ HandleEditSelection(p)
    \/ HandleEditDate(p)
    \/ HandleEditShiftHours(p)
    \/ HandleEditOvertimeHours(p)
    \/ FinalizeShiftEdit(p)
    \/ FinalizeShiftEditDone(p)
    \/ HandleManagerDecision(p)
    \/ FinalizeManagerDecision(p)
    \/ FinalizeManagerDecisionDone(p)

\* the awaited gateway steps of those handlers
BotGatewayStep(p) ==
    \/ StatusRead(p)
    \/ StatusWrite(p)
    \/ AccrualFetchEmployee(p)
    \/ AccrualNextId(p)
    \/ AccrualAppend(p)
    \/ DetailsRead(p)
    \/ DetailsWrite(p)

\* the edit and the decision conversations of the sessions, their gateway calls
\* interleaved at every await, and the calendar
BotNext ==
    \/ \E p \in Sessions : EditOrDecisionHandler(p)
    \/ \E p \in Sessions : BotGatewayStep(p)
    \/ Tick

\* a colleague's pending shift, next to the employee's own one
ColleagueRow ==
    [id |-> 2, name |-> "bob", date |-> format_date(Today0), overtime |-> 0, hours |-> 8,
     comment |-> <<>>, submitted |-> <<>>,
     status |-> SHIFT_STATUS_PENDING, approved |-> <<>>, mcomment |-> <<>>,
     manager |-> "max"]

\* the bot starts on a sheet that may hold shifts of several employees
BotInit ==
    /\ \/ employees \in EmployeeSheets /\ shifts \in InitialShiftSheets
       \/ employees = <<AnnRow, BobRow, MaxRow, MiaRow>> /\ shifts = <<LegacyRow, ColleagueRow>>
    /\ accruals = <<>>
    /\ today = Today0
    /\ pc = [p \in Sessions |-> "idle"]
    /\ loc = [p \in Sessions |-> NoLoc]
    /\ users = [p \in Sessions |-> None]
    /\ state = [p \in Sessions |-> "idle"]
    /\ data = [p \in Sessions |-> EmptyData]
    /\ reply = [p \in Sessions |-> <<"none">>]
    /\ calls = 0
    /\ log = <<>>
    /\ accrualShift = <<>>
    /\ buttons = [p \in Sessions |-> {}]

BotSpec == BotInit /\ [][BotNext]_vars

\* no other session is in a conversation or in a handler
Alone(p) == \A q \in Sessions \ {p} : state[q] = "idle" /\ pc[q] = "idle"

\* a step of a handler or of its gateway call, while session p is alone
FlowStep(p) ==
    \/ Alone(p) /\ HandleStart(p)
    \/ Alone(p) /\ HandleContact(p)
    \/ Alone(p) /\ RequestShiftDate(p)
    \/ Alone(p) /\ HandleShiftDate(p)
    \/ Alone(p) /\ HandleShiftHours(p)
    \/ Alone(p) /\ HandleOvertimeHours(p)
    \/ Alone(p) /\ HandleShiftComment(p)
    \/ Alone(p) /\ HandleShiftCommentDone(p)
    \/ Alone(p) /\ StartEditingShift(p)
    \/ Alone(p) /\ HandleEditSelection(p)
    \/ Alone(p) /\ HandleEditDate(p)
    \/ Alone(p) /\ HandleEditShiftHours(p)
    \/ Alone(p) /\ HandleEditOvertimeHours(p)
    \/ Alone(p) /\ FinalizeShiftEdit(p)
    \/ Alone(p) /\ FinalizeShiftEditDone(p)
    \/ Alone(p) /\ HandleManagerDecision(p)
    \/ Alone(p) /\ FinalizeManagerDecision(p)
    \/ Alone(p) /\ FinalizeManagerDecisionDone(p)
    \/ Alone(p) /\ HandleManagerPending(p)
    \/ Alone(p) /\ HandleSubordinates(p)
    \/ Alone(p) /\ StatusRead(p)
    \/ Alone(p) /\ StatusWrite(p)
    \/ Alone(p) /\ AccrualFetchEmployee(p)
    \/ Alone(p) /\ AccrualNextId(p)
    \/ Alone(p) /\ AccrualAppend(p)
    \/ Alone(p) /\ AppendNextId(p)
    \/ Alone(p) /\ AppendRow(p)
    \/ Alone(p) /\ DetailsRead(p)
    \/ Alone(p) /\ DetailsWrite(p)

\* every handler and every conversation, one conversation at a time, within one day
FlowNext == \E p \in Sessions : FlowStep(p)

FlowInit ==
    /\ Init
    /\ employees = <<AnnRow, BobRow, MaxRow, MiaRow>>
    /\ shifts = <<LegacyRow>>

FlowSpec == FlowInit /\ [][FlowNext]_vars

\* the steps of one account: login, the submission flow with its gateway call, and the
\* commands and buttons that need a role
AccountStep(p) ==
    \/ HandleStart(p)
    \/ HandleContact(p)
    \/ RequestShiftDate(p)
    \/ HandleShiftDate(p)
    \/ HandleShiftHours(p)
    \/ HandleOvertimeHours(p)
    \/ HandleShiftComment(p)
    \/ HandleShiftCommentDone(p)
    \/ HandleManagerDecision(p)
    \/ HandleManagerPending(p)
    \/ AppendNextId(p)
    \/ AppendRow(p)

\* the account of an employee (the first session) while the administrator edits the
\* employees worksheet
AdminNext ==
    \/ \E p \in {Caller} : AccountStep(p)
    \/ EditEmployees

AdminSpec == Init /\ [][AdminNext]_vars

(***************************************************************************)
(* The value conversions on their own: every session is handed one input,  *)
(* and the function is applied to it                                       *)
(***************************************************************************)
\* "0501234567", "+380501234567", "380501234567"
LocalPhone == <<"0", "5", "0", "1", "2", "3", "4", "5", "6", "7">>
PlusPhone == <<"+", "3", "8", "0", "5", "0", "1", "2", "3", "4", "5", "6", "7">>
FullPhone == <<"3", "8", "0", "5", "0", "1", "2", "3", "4", "5", "6", "7">>

\* the phone texts sanitize_phone is given: the three above, "050a123b4567",
\* "tel.380501234567", "+0501234567", "80501234567", "050123456", "12345", "tel", ""
PhoneTexts ==
    { LocalPhone, PlusPhone, FullPhone,
      <<"0", "5", "0", "a", "1", "2", "3", "b", "4", "5", "6", "7">>,
      <<"t", "e", "l", ".", "3", "8", "0", "5", "0", "1", "2", "3", "4", "5", "6", "7">>,
      <<"+", "0", "5", "0", "1", "2", "3", "4", "5", "6", "7">>,
      <<"8", "0", "5", "0", "1", "2", "3", "4", "5", "6", "7">>,
      <<"0", "5", "0", "1", "2", "3", "4", "5", "6">>,
      <<"1", "2", "3", "4", "5">>,
      <<"t", "e", "l">>,
      <<>> }

UtilCall(op, args) == [caller |-> "test", op |-> op, args |-> args]

\* the texts parse_hours is given: "8", "1,5", "1.5", "0,50", "0.5", " 2 ", "+3", "5.",
\* ",5", "-1", "-0,5", "-0", "1,5,5", ".", "?", "nan", "NaN", "inf", "-inf", ""
HoursTexts ==
    { <<"8">>, <<"1", ",", "5">>, <<"1", ".", "5">>, <<"0", ",", "5", "0">>,
      <<"0", ".", "5">>, <<" ", "2", " ">>, <<"+", "3">>, <<"5", ".">>, <<",", "5">>,
      <<"-", "1">>, <<"-", "0", ",", "5">>, <<"-", "0">>, <<"1", ",", "5", ",", "5">>,
      <<".">>, <<"?">>, <<"n", "a", "n">>, <<"N", "a", "N">>, <<"i", "n", "f">>,
      <<"-", "i", "n", "f">>, <<>> }

UtilCalls ==
    { UtilCall("sanitize_phone", raw) : raw \in PhoneTexts }
        \cup { UtilCall("parse_hours", text) : text \in HoursTexts }

UtilInit ==
    /\ employees = <<AnnRow, BobRow, MaxRow, MiaRow>>
    /\ shifts = <<>>
    /\ accruals = <<>>
    /\ today = Today0
    /\ loc \in [Sessions -> UtilCalls]
    /\ pc = [p \in Sessions |-> loc[p].op]
    /\ users = [p \in Sessions |-> None]
    /\ state = [p \in Sessions |-> "idle"]
    /\ data = [p \in Sessions |-> EmptyData]
    /\ reply = [p \in Sessions |-> <<"none">>]
    /\ calls = 0
    /\ log = <<>>
    /\ accrualShift = <<>>
    /\ buttons = [p \in Sessions |-> {}]

\* sanitize_phone(raw)
SanitizePhone(p) ==
    /\ pc[p] = "sanitize_phone"
    /\ pc' = [pc EXCEPT ![p] = "sanitize_phone_again"]
    /\ loc' = [loc EXCEPT ![p] = [caller |-> "test", op |-> "sanitize_phone",
                                  args |-> loc[p].args,
                                  result |-> sanitize_phone(loc[p].args)]]
    /\ UNCHANGED <<storeVars, botVars, histVars>>

\* sanitize_phone(sanitize_phone(raw))
SanitizePhoneAgain(p) ==
    /\ pc[p] = "sanitize_phone_again"
    /\ pc' = [pc EXCEPT ![p] = "ret"]
    /\ loc' = [loc EXCEPT ![p] = [caller |-> "test", op |-> "sanitize_phone",
                                  args |-> loc[p].args, result |-> loc[p].result,
                                  again |-> sanitize_phone(loc[p].result)]]
    /\ UNCHANGED <<storeVars, botVars, histVars>>

\* parse_hours(text)
ParseHours(p) ==
    /\ pc[p] = "parse_hours"
    /\ pc' = [pc EXCEPT ![p] = "ret"]
    /\ loc' = [loc EXCEPT ![p] = [caller |-> "test", op |-> "parse_hours",
                                  args |-> loc[p].args,
                                  result |-> parse_hours(loc[p].args)]]
    /\ UNCHANGED <<storeVars, botVars, histVars>>

UtilNext ==
    \/ \E p \in Sessions : SanitizePhone(p)
    \/ \E p \in Sessions : SanitizePhoneAgain(p)
    \/ \E p \in Sessions : ParseHours(p)

UtilSpec == UtilInit /\ [][UtilNext]_vars

(***************************************************************************)
(* Properties                                                              *)
(***************************************************************************)
Rows == 1..Len(shifts)

\* the log entries of the calls that targeted sheet row r
EntriesOf(r) == { j \in 1..Len(log) : log[j].row = r }

\* the accrual rows made for the shift in sheet row r
AccrualsOf(r) == { k \in 1..Len(accruals) : accrualShift[k] = r }

\* C1: under any interleaving of decisions on one shift, at most one call returns
\* changed = TRUE for it, and the status such a call stored is never overwritten by
\* another decision.
C1_DecidedAtMostOnce ==
    \A j \in 1..Len(log) :
        log[j].changed =>
            /\ \A i \in EntriesOf(log[j].row) \ {j} : ~log[i].changed
            /\ shifts[log[j].row - 1].status = log[j].status

\* C2: of the decisions made one after another on one shift, the first returns
\* changed = TRUE and stores the status it asked for; every later one returns
\* changed = FALSE with a record carrying the first one's status, leaves the stored
\* status, approved_at, manager_comment and manager_name as the first call left them,
\* and appends no accrual.
C2_SecondDecisionIsNoOp ==
    \A j \in 1..Len(log) :
        log[j].row # 0 =>
            LET earlier == { i \in EntriesOf(log[j].row) : i < j }
            IN  IF earlier = {}
                THEN /\ log[j].changed
                     /\ log[j].status = log[j].requested
                     /\ log[j].stored.status = log[j].requested
                ELSE LET f == CHOOSE i \in earlier : \A k \in earlier : i <= k
                     IN  /\ ~log[j].changed
                         /\ log[j].status = log[f].status
                         /\ log[j].stored = log[f].stored
                         /\ log[j].accrual = "none"
                         /\ Cardinality(AccrualsOf(log[j].row)) <= 1

C2_Witness ==
    \E i, j \in 1..Len(log) :
        /\ i < j
        /\ log[i].row = log[j].row
        /\ log[i].row # 0
        /\ log[i].requested # log[j].requested
        /\ log[i].requested = SHIFT_STATUS_APPROVED
        /\ ~log[j].changed

\* C3 (as stated): between operations, every approved shift has exactly one accrual
\* record and no pending or declined shift has any.
C3_ExactlyOneAccrual ==
    Quiet =>
        \A i \in Rows :
            Cardinality(AccrualsOf(i + 1)) =
                (IF shifts[i].status = SHIFT_STATUS_APPROVED THEN 1 ELSE 0)

\* C3 (amended): between operations, an approved shift has exactly one accrual
\* record, appended by the call that approved it, unless that call could not find the
\* shift's employee, in which case it has none; no pending or declined shift has any.
C3_OneAccrualUnlessEmployeeMissing ==
    Quiet =>
        \A i \in Rows :
            LET n == Cardinality(AccrualsOf(i + 1))
                approving == { j \in EntriesOf(i + 1) : log[j].changed }
            IN  IF shifts[i].status = SHIFT_STATUS_APPROVED
                THEN /\ Cardinality(approving) = 1
                     /\ \A j \in approving :
                            \/ log[j].accrual = "appended" /\ n = 1
                            \/ log[j].accrual = "skipped" /\ n = 0
                ELSE n = 0

C3_Witness ==
    /\ Quiet
    /\ \E i \in Rows :
          /\ shifts[i].status = SHIFT_STATUS_APPROVED
          /\ Cardinality(AccrualsOf(i + 1)) = 1
    /\ \E i \in Rows :
          /\ shifts[i].status = SHIFT_STATUS_APPROVED
          /\ Cardinality(AccrualsOf(i + 1)) = 0

\* C4: under any interleaving of two decisions on one shift, at most one accrual
\* record is appended for it, and one exists only if the status finally stored is
\* approved.
C4_AtMostOneAccrual ==
    \A i \in Rows :
        /\ Cardinality(AccrualsOf(i + 1)) <= 1
        /\ (Quiet /\ AccrualsOf(i + 1) # {}) => shifts[i].status = SHIFT_STATUS_APPROVED

\* the detail cells (columns C:G) of a sheet row
DetailsOf(row) ==
    [date |-> row.date, overtime |-> row.overtime, hours |-> row.hours,
     comment |-> row.comment, submitted |-> row.submitted]

\* C5: under any interleaving of an edit with a decision, the shift_date, hours,
\* overtime hours, comment and submitted_at of a shift are not modified once its
\* stored status is approved or declined.
C5_NoEditAfterDecision ==
    [][\A i \in Rows :
          shifts[i].status # SHIFT_STATUS_PENDING
              => DetailsOf(shifts'[i]) = DetailsOf(shifts[i])]_vars

\* C6: under any interleaving of append_shift calls, no two shift records share an
\* id, and no two accrual records share an id.
C6_UniqueIds ==
    /\ \A i, j \in Rows : i # j => shifts[i].id # shifts[j].id
    /\ \A i, j \in 1..Len(accruals) : i # j => accruals[i].id # accruals[j].id

\* C7: when append_shift has returned, get_employee_shifts(employee_name, None) holds
\* a record with the id returned, which is the previous maximum id + 1 (1 for an empty
\* sheet), with status pending and with employee_name, shift_date, shift_hours,
\* overtime_hours, comment and manager_name equal to the input; the rows stored before
\* are unchanged.
C7_AppendThenList ==
    \A p \in Sessions :
        (pc[p] = "ret" /\ loc[p].op = "append_shift") =>
            LET a == loc[p].args
                before == loc[p].before
                listed == get_employee_shifts(a.employee_name, 0, FALSE)
                expected_id == IF before = <<>> THEN 1
                               ELSE MaxOf({ before[i].id : i \in 1..Len(before) }) + 1
            IN  /\ loc[p].result.shift_id = expected_id
                /\ SubSeq(shifts, 1, Len(before)) = before
                /\ \E k \in 1..Len(listed) :
                      /\ listed[k].shift_id = expected_id
                      /\ listed[k].status = SHIFT_STATUS_PENDING
                      /\ listed[k].employee_name = a.employee_name
                      /\ listed[k].shift_date = a.shift_date
                      /\ listed[k].shift_hours = a.shift_hours
                      /\ listed[k].overtime_hours = a.overtime_hours
                      /\ listed[k].comment = a.comment
                      /\ listed[k].manager_name = a.manager_name

\* the employees row a name resolves to (the first with that name)
EmployeeRows(name) == { i \in 1..Len(employees) : employees[i].name = name }

\* C8: the accrual row appended on approval carries the rates the employee's row holds
\* at that moment, shift_sum = shift hours x shift rate, overtime_sum = overtime
\* hours x overtime rate and total_sum = their sum; no step alters an accrual row once
\* it is stored (a later change of the employee's rates included).
C8_AccrualSums ==
    [][/\ Len(accruals') >= Len(accruals)
       /\ SubSeq(accruals', 1, Len(accruals)) = accruals
       /\ Len(accruals') > Len(accruals) =>
            LET r == accruals'[Len(accruals')]
                sh == shifts[accrualShift'[Len(accruals')] - 1]
                rows == EmployeeRows(sh.name)
            IN  /\ Len(accruals') = Len(accruals) + 1
                /\ sh.status = SHIFT_STATUS_APPROVED
                /\ rows # {}
                /\ LET e == employees[CHOOSE i \in rows : \A j \in rows : i <= j]
                   IN  /\ r.shift_rate = e.shift_rate
                       /\ r.overtime_rate = e.overtime_rate
                       /\ r.shift_sum = sh.hours * e.shift_rate
                       /\ r.overtime_sum = sh.overtime * e.overtime_rate
                       /\ r.total_sum = r.shift_sum + r.overtime_sum]_vars

C8_Witness ==
    \E k \in 1..Len(accruals) :
        /\ shifts[accrualShift[k] - 1].hours = 8
        /\ shifts[accrualShift[k] - 1].overtime = 2
        /\ accruals[k].shift_rate = 100
        /\ accruals[k].overtime_rate = 150
        /\ accruals[k].shift_sum = 800
        /\ accruals[k].overtime_sum = 300
        /\ accruals[k].total_sum = 1100
        /\ \E i \in EmployeeRows(accruals[k].name) : employees[i].shift_rate # 100

\* the day a sheet row counts from: its submission day, else its shift day
RefDay(row) == IF row.submitted # <<>> THEN row.submitted[2] ELSE row.date[2]

\* the shift in sheet row i + 1 may be edited by employee n within d days
Eligible(i, n, d) ==
    /\ shifts[i].name = n
    /\ shifts[i].status = SHIFT_STATUS_PENDING
    /\ RefDay(shifts[i]) >= today - d

WindowDays == {1, EDIT_MAX_DAYS}

\* C9: get_editable_shift(employee, id, max_days) returns the record with that id when
\* it belongs to the employee, is pending and its reference day (submission day, else
\* shift day) is not before today - max_days; it returns nothing when the shift is
\* another employee's, not pending or older, and nothing when no shift has the id.
C9_EditableShift ==
    \A n \in StaffNames, id \in 0..(MaxCalls + 1), d \in WindowDays :
        LET matching == { i \in Rows : shifts[i].id = id }
            res == get_editable_shift(n, id, d)
        IN  IF \E i \in matching : Eligible(i, n, d)
            THEN /\ res # None
                 /\ res[1].row_index - 1 \in matching
                 /\ Eligible(res[1].row_index - 1, n, d)
                 /\ res[1] = FetchRecord(res[1].row_index - 1)
            ELSE res = None

C9_Witness ==
    \E i, j \in Rows :
        /\ shifts[i].name = "bob"
        /\ get_editable_shift("bob", shifts[i].id, EDIT_MAX_DAYS) = <<FetchRecord(i)>>
        /\ get_editable_shift("ann", shifts[i].id, EDIT_MAX_DAYS) = None
        /\ get_editable_shift("bob", shifts[i].id, 1) = None
        /\ shifts[j].name = "ann"
        /\ shifts[j].status # SHIFT_STATUS_PENDING
        /\ get_editable_shift("ann", shifts[j].id, EDIT_MAX_DAYS) = None
        /\ get_editable_shift("ann", MaxCalls + 1, EDIT_MAX_DAYS) = None

\* a pending shift that has left the edit window as the days passed
C9_Aged ==
    \E i \in Rows :
        /\ shifts[i].status = SHIFT_STATUS_PENDING
        /\ RefDay(shifts[i]) < today - EDIT_MAX_DAYS
        /\ get_editable_shift(shifts[i].name, shifts[i].id, EDIT_MAX_DAYS) = None

\* the update_shift_details step of session p that reads the sheet, made for the edit
\* flow, finds no editable shift with the id the flow holds
StaleEditRead(p) ==
    /\ pc[p] = "details_read"
    /\ loc[p].caller = "finalize_shift_edit"
    /\ ~\E i \in Rows : /\ shifts[i].id = loc[p].args.shift_id
                        /\ Eligible(i, loc[p].args.employee_name, EDIT_MAX_DAYS)

\* update_shift_details has returned failure to the edit flow of session p
EditFailed(p) ==
    /\ pc[p] = "ret"
    /\ loc[p].caller = "finalize_shift_edit"
    /\ ~loc[p].result.ok

\* C10: when the edit flow completes while its shift is no longer editable (decided,
\* or out of the 7-day window), update_shift_details returns failure and writes
\* nothing, and the handler then clears the session's state and data and answers with
\* the failure text, making no further call and asking nothing again.
C10_StaleEditFails ==
    [][\A p \in Sessions :
          /\ (StaleEditRead(p) /\ pc'[p] # pc[p]) =>
                /\ EditFailed(p)'
                /\ shifts' = shifts
          /\ (EditFailed(p) /\ pc'[p] # pc[p]) =>
                /\ pc'[p] = "idle"
                /\ state'[p] = "idle"
                /\ data'[p] = EmptyData
                /\ reply'[p] = <<"edit_failed">>
                /\ shifts' = shifts
                /\ calls' = calls]_vars

\* an edit flow has ended on the failure text on the day it began, its shift decided
\* between the selection and the last step
C10_Witness ==
    \E p \in Sessions :
        /\ reply[p] = <<"edit_failed">>
        /\ today = Today0
        /\ pc[p] = "idle"
        /\ state[p] = "idle"
        /\ data[p] = EmptyData
        /\ \E i \in Rows : /\ shifts[i].name = users[p][1].name
                            /\ shifts[i].status # SHIFT_STATUS_PENDING

\* an edit flow has ended on the failure text, its pending shift out of the window
C10_Aged ==
    \E p \in Sessions :
        /\ reply[p] = <<"edit_failed">>
        /\ state[p] = "idle"
        /\ \A i \in Rows : shifts[i].status = SHIFT_STATUS_PENDING

FlowStates == ShiftFormStates \cup ShiftEditStates \cup {"ManagerComment.comment"}

\* session p starts no gateway call and the store stays as it is
NothingPersisted(p) ==
    /\ pc'[p] = "idle"
    /\ shifts' = shifts
    /\ accruals' = accruals

\* C11: from every state of every flow, the add command, the edit command (when the
\* employee has a shift to edit) and a manager's press of a decision button each put
\* the session into the first state of the new flow, and the flow they interrupt
\* persists nothing.
C11_NewFlowDiscards ==
    [][\A p \in Sessions :
          (state[p] \in FlowStates /\ users[p] # None) =>
              /\ RequestShiftDate(p) =>
                    state'[p] = "ShiftForm.date" /\ NothingPersisted(p)
              /\ (/\ EditCommand(p)
                  /\ get_employee_shifts(users[p][1].name, EDIT_MAX_DAYS, TRUE) # <<>>) =>
                    state'[p] = "ShiftEdit.select_shift" /\ NothingPersisted(p)
              /\ (HandleManagerDecision(p) /\ users[p][1].name \in ManagerNames) =>
                    state'[p] = "ManagerComment.comment" /\ NothingPersisted(p)]_vars

ShiftFormKeys == {"employee_name", "manager", "shift_date", "shift_hours", "overtime_hours"}
ShiftEditKeys ==
    {"edit_shift_id", "previous_shift_hours", "previous_overtime_hours", "previous_comment",
     "edit_shift_date", "edit_shift_hours", "edit_overtime_hours"}
ManagerCommentKeys == {"manager_action", "shift_id"}

\* C12: the data of a session in a state of a flow holds no field that another flow
\* collected.
C12_NoFieldLeak ==
    \A p \in Sessions :
        /\ state[p] \in ShiftFormStates => DOMAIN data[p] \subseteq ShiftFormKeys
        /\ state[p] \in ShiftEditStates => DOMAIN data[p] \subseteq ShiftEditKeys
        /\ state[p] = "ManagerComment.comment" => DOMAIN data[p] \subseteq ManagerCommentKeys

\* field k of the data of session p is set or changed by the step
Sets(p, k) ==
    /\ k \in DOMAIN data'[p]
    /\ k \notin DOMAIN data[p] \/ data'[p][k] # data[p][k]

\* session p moves from state a to state b, or stays out of b
Enters(p, a, b) == (state'[p] = b /\ state[p] # b) => state[p] = a

\* C13: the submission flow passes date, shift_hours, overtime_hours, comment in that
\* order, one state per accepted input, each field being stored by the state that asks
\* for it; append_shift is called only from the comment state, once, with the stored
\* date and hours and the name of the authenticated employee, it appends one row, and
\* the session is idle with empty data when the handler has ended.
C13_SubmissionOrder ==
    [][\A p \in Sessions :
          /\ Enters(p, "ShiftForm.date", "ShiftForm.shift_hours")
          /\ Enters(p, "ShiftForm.shift_hours", "ShiftForm.overtime_hours")
          /\ Enters(p, "ShiftForm.overtime_hours", "ShiftForm.comment")
          /\ Sets(p, "shift_date") =>
                state[p] = "ShiftForm.date" /\ state'[p] = "ShiftForm.shift_hours"
          /\ Sets(p, "shift_hours") =>
                state[p] = "ShiftForm.shift_hours" /\ state'[p] = "ShiftForm.overtime_hours"
          /\ Sets(p, "overtime_hours") =>
                state[p] = "ShiftForm.overtime_hours" /\ state'[p] = "ShiftForm.comment"
          /\ (pc[p] = "idle" /\ pc'[p] # "idle" /\ loc'[p].op = "append_shift") =>
                /\ state[p] = "ShiftForm.comment"
                /\ users[p] # None
                /\ loc'[p].args.employee_name = users[p][1].name
                /\ isoformat(loc'[p].args.shift_date) = data[p].shift_date
                /\ loc'[p].args.shift_hours = data[p].shift_hours
                /\ loc'[p].args.overtime_hours = data[p].overtime_hours
          /\ (pc[p] # "idle" /\ loc[p].caller = "handle_shift_comment") =>
                /\ Len(shifts') = Len(loc[p].before) + (IF pc'[p] \in {"ret", "idle"} THEN 1 ELSE 0)
                /\ pc'[p] # "idle" => state'[p] = "ShiftForm.comment"
                /\ pc'[p] = "idle" => state'[p] = "idle" /\ data'[p] = EmptyData]_vars

\* a submission flow has ended: the row it appended is the employee's
C13_Witness ==
    \E p \in Sessions, i \in Rows :
        /\ reply[p] = <<"shift_saved", shifts[i].id>>
        /\ state[p] = "idle"
        /\ shifts[i].name = users[p][1].name
        /\ shifts[i].hours = SubmitForm.shift_hours
        /\ shifts[i].overtime = SubmitForm.overtime_hours
        /\ shifts[i].date = format_date(Today0 - SubmitForm.days_back)

\* texts that are no date, no count of hours, no shift number
BadDateTexts == {JunkText, EDIT_MENU, Num(-1)}
BadHoursTexts == {JunkText, EDIT_MENU, Num(-1)}
BadIdTexts == {JunkText, EDIT_MENU}

\* the step leaves session p where it is and writes nothing
Rejected(p) ==
    /\ state'[p] = state[p]
    /\ data'[p] = data[p]
    /\ NothingPersisted(p)

RegisteredManager(p) == users[p] # None /\ users[p][1].name \in ManagerNames

\* C15: a handler starts a gateway call that writes (append_shift,
\* update_shift_details, update_shift_status) only for a session with an employee in
\* the registry, and update_shift_status only for a manager, the registry being read
\* in the step that starts the call; the shifts and the accruals change only in a step
\* of such a call.
C15_WritesNeedAuthorization ==
    [][/\ \A p \in Sessions :
            (pc[p] = "idle" /\ pc'[p] # "idle") =>
                /\ users[p] # None
                /\ loc'[p].op = "update_shift_status" => RegisteredManager(p)
       /\ (shifts' # shifts \/ accruals' # accruals) =>
            \E p \in Sessions :
                /\ pc[p] \notin {"idle", "ret"}
                /\ pc'[p] # pc[p]
                /\ users[p] # None
                /\ loc[p].op = "update_shift_status" => RegisteredManager(p)]_vars

\* a manager's decision is being written while an employee who is no manager has been
\* turned down
C15_Witness ==
    \E p, q \in Sessions :
        /\ pc[p] = "status_write"
        /\ RegisteredManager(p)
        /\ users[q] # None
        /\ ~RegisteredManager(q)
        /\ reply[q] = <<"no_rights">>

\* session p has no employee in the registry and a handler that asks for one runs
Unauthenticated(p) ==
    /\ users[p] = None
    /\ \/ RequestShiftDate(p)
       \/ HandleShiftComment(p)
       \/ StartEditingShift(p)
       \/ HandleEditSelection(p)
       \/ FinalizeShiftEdit(p)

\* session p has no manager in the registry and a handler for managers runs
NotAManager(p) ==
    /\ ~RegisteredManager(p)
    /\ \/ HandleManagerDecision(p)
       \/ FinalizeManagerDecision(p)
       \/ HandleManagerPending(p)
       \/ HandleSubordinates(p)

\* C16: a step in which a handler finds the session unauthorized (no employee, or no
\* manager where one is needed, the press of a decision button and the managers' menu
\* commands included) leaves the session idle with empty data and the registry as it
\* was.
C16_AuthFailureClears ==
    [][\A p \in Sessions :
          (Unauthenticated(p) \/ NotAManager(p)) =>
              /\ state'[p] = "idle"
              /\ data'[p] = EmptyData
              /\ users' = users]_vars

\* the sheet rows with shift id k
RowsWithId(k) == { i \in Rows : shifts[i].id = k }

\* the update_shift_status step of session p that reads the sheet, made for the
\* decision flow, finds its shift decided already
StaleDecisionRead(p) ==
    /\ pc[p] = "status_read"
    /\ loc[p].caller = "finalize_manager_decision"
    /\ RowsWithId(loc[p].args.shift_id) # {}
    /\ \A i \in RowsWithId(loc[p].args.shift_id) : shifts[i].status # SHIFT_STATUS_PENDING

\* update_shift_status has returned a record and changed = FALSE to the decision flow
DecisionRefused(p) ==
    /\ pc[p] = "ret"
    /\ loc[p].caller = "finalize_manager_decision"
    /\ loc[p].result.updated # None
    /\ ~loc[p].result.changed

\* C17: when the decision flow completes on a shift that is not pending any more,
\* update_shift_status returns changed = FALSE and writes nothing; the handler then
\* answers with the status the shift has (never with the decision as applied) and
\* leaves the session idle with empty data.
C17_StaleDecisionReported ==
    [][\A p \in Sessions :
          /\ (StaleDecisionRead(p) /\ pc'[p] # pc[p]) =>
                /\ DecisionRefused(p)'
                /\ \A i \in RowsWithId(loc[p].args.shift_id) :
                       loc'[p].result.updated[1].status = shifts[i].status
                /\ shifts' = shifts
                /\ accruals' = accruals
          /\ (DecisionRefused(p) /\ pc'[p] # pc[p]) =>
                /\ reply'[p] = <<"already_has_status", loc[p].result.updated[1].status>>
                /\ \A i \in RowsWithId(loc[p].args.shift_id) :
                       reply'[p][2] = shifts[i].status
                /\ pc'[p] = "idle"
                /\ state'[p] = "idle"
                /\ data'[p] = EmptyData
                /\ shifts' = shifts
                /\ accruals' = accruals]_vars

\* a manager who asked to decline an approved shift has been told it is approved
C17_Witness ==
    \E p \in Sessions :
        /\ reply[p] = <<"already_has_status", SHIFT_STATUS_APPROVED>>
        /\ state[p] = "idle"
        /\ log # <<>>
        /\ log[Len(log)].requested = SHIFT_STATUS_DECLINED
        /\ ~log[Len(log)].changed

\* the shift number a selection text names (0 when it names none)
SelectionId(text) ==
    IF text = <<"#", "1">> THEN 1 ELSE IF text = JunkText THEN 0 ELSE MaxShifts

\* the text is the number of a shift that the employee of session p may edit now
NamesEditable(p, text) ==
    \E i \in Rows : /\ shifts[i].id = SelectionId(text)
                     /\ Eligible(i, users[p][1].name, EDIT_MAX_DAYS)

\* C18: in select_shift the session moves on to ShiftEdit.date exactly when the text
\* is the number of a shift that is, at that moment, the employee's, pending and inside
\* the 7 days, and it then stores that number; any other text leaves the session in
\* select_shift with no edit field stored.
C18_SelectionRevalidates ==
    [][\A p \in Sessions : \A text \in SelectionTexts :
          (users[p] # None /\ handle_edit_selection(p, text)) =>
              IF NamesEditable(p, text)
              THEN /\ state'[p] = "ShiftEdit.date"
                   /\ data'[p].edit_shift_id = SelectionId(text)
              ELSE /\ state'[p] = "ShiftEdit.select_shift"
                   /\ data'[p] = data[p]
                   /\ DOMAIN data'[p] \cap ShiftEditKeys = {}]_vars

\* a session has moved on with the number of its editable shift
C18_Witness ==
    \E p \in Sessions :
        /\ state[p] = "ShiftEdit.date"
        /\ \E i \in Rows : /\ shifts[i].id = data[p].edit_shift_id
                            /\ Eligible(i, users[p][1].name, EDIT_MAX_DAYS)

\* a session has been turned down in select_shift for a shift of its own that is
\* pending but older than the 7 days
C18_Refused ==
    \E p \in Sessions :
        /\ state[p] = "ShiftEdit.select_shift"
        /\ reply[p] = <<"not_editable">>
        /\ \E i \in Rows : /\ shifts[i].name = users[p][1].name
                            /\ shifts[i].status = SHIFT_STATUS_PENDING
                            /\ RefDay(shifts[i]) < today - EDIT_MAX_DAYS

\* select_shift turns down the number session p has sent
SelectionRefused(p) ==
    /\ users[p] # None
    /\ \E text \in SelectionTexts :
          /\ Len(text) = 2
          /\ ~NamesEditable(p, text)
          /\ handle_edit_selection(p, text)

\* update_shift_status has returned to the decision flow without a change
DecisionFailed(p) ==
    /\ pc[p] = "ret"
    /\ loc[p].caller = "finalize_manager_decision"
    /\ ~loc[p].result.changed

\* the handler of session p ends and leaves the session idle with empty data
EndsCleared(p) ==
    pc'[p] # pc[p] => (pc'[p] = "idle" /\ state'[p] = "idle" /\ data'[p] = EmptyData)

\* C19 (as stated): after a not-found or ineligible outcome in shift selection, at
\* the completion of an edit and at the completion of a decision, the session is idle.
C19_IneligibleClears ==
    [][\A p \in Sessions :
          /\ SelectionRefused(p) => state'[p] = "idle"
          /\ EditFailed(p) => EndsCleared(p)
          /\ DecisionFailed(p) => EndsCleared(p)]_vars

\* C19 (amended): after a not-found or ineligible outcome at the completion of an
\* edit and at the completion of a decision the session is idle with empty data; after
\* one in shift selection the session stays in select_shift and is asked again.
C19_IneligibleClearsAtCompletion ==
    [][\A p \in Sessions :
          /\ SelectionRefused(p) =>
                state'[p] = "ShiftEdit.select_shift" /\ reply'[p] = <<"not_editable">>
          /\ EditFailed(p) => EndsCleared(p)
          /\ DecisionFailed(p) => EndsCleared(p)]_vars

\* a session has been turned down in select_shift for a shift that is decided, and
\* a decision on a shift that does not exist has ended idle
C19_Witness ==
    \E p, q \in Sessions :
        /\ state[p] = "ShiftEdit.select_shift"
        /\ reply[p] = <<"not_editable">>
        /\ \E i \in Rows : /\ shifts[i].name = users[p][1].name
                            /\ shifts[i].status # SHIFT_STATUS_PENDING
        /\ reply[q] = <<"shift_not_found">>
        /\ state[q] = "idle"

\* C20: when the approving call finds no employee row with the name of the shift, the
\* approved status and the decision cells are stored as asked, the call returns
\* changed = TRUE, no accrual row is appended, and no later step appends one for that
\* shift.
C20_MissingEmployeeSkipsAccrual ==
    [][/\ \A p \in Sessions :
            (/\ pc[p] = "accrual_employee"
             /\ pc'[p] # pc[p]
             /\ EmployeeRows(loc[p].updated.employee_name) = {}) =>
                LET i == loc[p].updated.row_index - 1
                    a == loc[p].args
                IN  /\ pc'[p] = "ret"
                    /\ loc'[p].result.changed
                    /\ loc'[p].result.updated[1].status = SHIFT_STATUS_APPROVED
                    /\ accruals' = accruals
                    /\ shifts' = shifts
                    /\ shifts[i].status = SHIFT_STATUS_APPROVED
                    /\ shifts[i].approved = format_datetime(a.approved_at)
                    /\ shifts[i].mcomment = a.comment
                    /\ shifts[i].manager = a.manager_name
       /\ \A j \in 1..Len(log) :
            log[j].accrual = "skipped" =>
                { k \in 1..Len(accruals') : accrualShift'[k] = log[j].row } = {}]_vars

\* an approval went without its accrual, the employee is back in the sheet, and a later
\* decision on the shift has been made
C20_Witness ==
    \E j, k \in 1..Len(log) :
        /\ j < k
        /\ log[j].accrual = "skipped"
        /\ log[k].row = log[j].row
        /\ EmployeeRows(shifts[log[j].row - 1].name) # {}
        /\ AccrualsOf(log[j].row) = {}

(***************************************************************************)
(* The registry and the employees worksheet                                *)
(***************************************************************************)
\* C21: when the submission flow ends, the manager_name handed to append_shift (and
\* stored on the shift) is the manager_name the employee's row of the employees
\* worksheet resolves to at that moment, also when the row was changed after the
\* session logged in.
C21_ManagerAtSubmission ==
    [][\A p \in Sessions : \A text \in SubmitCommentTexts :
          (users[p] # None /\ handle_shift_comment(p, text)) =>
              LET record == fetch_employee_by_name(users[p][1].name)
              IN  record # None =>
                      loc'[p].args.manager_name = record[1].manager_name]_vars

\* C22: a contact whose sanitized phone matches an employee maps the session to that
\* employee, whatever it was mapped to before; no other step (a contact that is
\* turned down or matches nobody, /start, a refusal for lack of rights, the end or the
\* abandoning of a flow) changes or removes the mapping of a session.
C22_RegistryMapping ==
    [][\A p \in Sessions :
          LET employee == fetch_employee_by_phone(Str(sanitize_phone(ContactPhone(p))))
              login == handle_contact(p, ContactPhone(p), FALSE) /\ employee # None
          IN  /\ login => users'[p] = employee
              /\ users'[p] # users[p] => login
              /\ users[p] # None => users'[p] # None]_vars

\* a session that submitted a shift while mapped to the employee under one manager is
\* now mapped to the employee's record under another
C22_Witness ==
    \E p \in Sessions : \E i \in Rows :
        /\ users[p] # None
        /\ shifts[i].name = users[p][1].name
        /\ shifts[i].submitted # <<>>
        /\ shifts[i].manager = "max"
        /\ users[p][1].manager_name = "mia"

(***************************************************************************)
(* The value conversions                                                   *)
(***************************************************************************)
\* session p holds the result of op
Applied(p, op) ==
    loc[p].caller = "test" /\ loc[p].op = op /\ "result" \in DOMAIN loc[p]

\* the digits of a text, in their order
RECURSIVE DigitsOf(_)
DigitsOf(raw) ==
    IF raw = <<>> THEN <<>>
    ELSE IF Head(raw) \in DigitChars THEN <<Head(raw)>> \o DigitsOf(Tail(raw))
    ELSE DigitsOf(Tail(raw))

\* a text without its letters
RECURSIVE WithoutLetters(_)
WithoutLetters(raw) ==
    IF raw = <<>> THEN <<>>
    ELSE IF Head(raw) \in {"a", "b", "e", "l", "t"} THEN WithoutLetters(Tail(raw))
    ELSE <<Head(raw)>> \o WithoutLetters(Tail(raw))

\* C23: sanitize_phone gives the digits of its input, with 38 in front when they are
\* 10 digits that start with 0, and as they are when they start with 380 (and the
\* invalid result when there are none): "0501234567", "+380501234567" and
\* "380501234567" all give "380501234567", two inputs that differ only by letters
\* give the same result, and sanitize_phone of a result is that result.
C23_SanitizePhone ==
    \A p \in Sessions :
        Applied(p, "sanitize_phone") =>
            LET raw == loc[p].args
                out == loc[p].result
                digits == DigitsOf(raw)
            IN  /\ out = IF Len(digits) = 10 /\ Head(digits) = "0"
                          THEN <<"3", "8">> \o digits
                          ELSE digits
                /\ StartsWith(digits, <<"3", "8", "0">>) => out = digits
                /\ raw \in {LocalPhone, PlusPhone, FullPhone} => out = FullPhone
                /\ \A q \in Sessions :
                      ( /\ Applied(q, "sanitize_phone")
                        /\ WithoutLetters(loc[q].args) = WithoutLetters(raw) )
                      => loc[q].result = out
                /\ "again" \in DOMAIN loc[p] => loc[p].again = out

\* the local number has been sanitized, twice, next to the same number with letters
\* in it
C23_Witness ==
    \E p, q \in Sessions :
        /\ Applied(p, "sanitize_phone")
        /\ loc[p].args = LocalPhone
        /\ "again" \in DOMAIN loc[p]
        /\ loc[p].again = FullPhone
        /\ Applied(q, "sanitize_phone")
        /\ loc[q].args # LocalPhone
        /\ WithoutLetters(loc[q].args) = LocalPhone
        /\ loc[q].result = FullPhone

\* the text is a decimal number: around it spaces, first a sign or none, then digits
\* with at most one separator (comma or point) and at least one digit
IsDecimalText(text) ==
    LET stripped == Strip(text)
        body == IF stripped # <<>> /\ Head(stripped) \in {"+", "-"}
                THEN Tail(stripped) ELSE stripped
        separators == { i \in 1..Len(body) : body[i] \in {",", "."} }
    IN  /\ Cardinality(separators) <= 1
        /\ Len(body) > Cardinality(separators)
        /\ \A i \in (1..Len(body)) \ separators : body[i] \in DigitChars

\* the decimal text denotes a value below zero
IsNegativeText(text) ==
    /\ Strip(text) # <<>>
    /\ Head(Strip(text)) = "-"
    /\ \E i \in 1..Len(text) : text[i] \in DigitChars \ {"0"}

\* C24: for a decimal text of a value that is not negative parse_hours returns a
\* value, the same for the text written with a comma and written with a point; for
\* a negative value and for every text that is not a decimal number it returns the
\* invalid result.
C24_ParseHours ==
    \A p \in Sessions :
        Applied(p, "parse_hours") =>
            LET text == loc[p].args
                out == loc[p].result
            IN  IF IsDecimalText(text) /\ ~IsNegativeText(text)
                THEN /\ out # None
                     /\ \A q \in Sessions :
                           ( /\ Applied(q, "parse_hours")
                             /\ Replace(loc[q].args, ",", ".") = Replace(text, ",", ".") )
                           => loc[q].result = out
                ELSE out = None

(***************************************************************************)
(* The decision fields and the frame of the writes                         *)
(***************************************************************************)
\* a pending shift carries no decision
PendingUndecided ==
    \A i \in Rows :
        shifts[i].status = SHIFT_STATUS_PENDING =>
            shifts[i].approved = <<>> /\ shifts[i].mcomment = <<>>

\* this step is the range write of an update_shift_status call on sheet row i + 1
StatusWriteOf(i) ==
    \E p \in Sessions : StatusWrite(p) /\ loc[p].target.row_index = i + 1

\* C25: a pending shift has an empty approved_at and an empty manager_comment in every
\* state; a row is appended with both empty, and the two fields of a row change only
\* in a write of update_shift_status that finds the row pending and leaves it decided.
C25_DecisionFieldsOnlyOnDecision ==
    /\ []PendingUndecided
    /\ [][ /\ Len(shifts') >= Len(shifts)
           /\ \A i \in 1..Len(shifts') :
                 IF i > Len(shifts)
                 THEN shifts'[i].approved = <<>> /\ shifts'[i].mcomment = <<>>
                 ELSE ( \/ shifts'[i].approved # shifts[i].approved
                        \/ shifts'[i].mcomment # shifts[i].mcomment )
                      => /\ StatusWriteOf(i)
                         /\ shifts[i].status = SHIFT_STATUS_PENDING
                         /\ shifts'[i].status # SHIFT_STATUS_PENDING ]_vars

(***************************************************************************)
(* The list of the edit flow and the lookup of its selection               *)
(***************************************************************************)
\* the record is among the shifts the edit flow lists for the employee
Listed(employee_name, record) ==
    LET listed == get_employee_shifts(employee_name, EDIT_MAX_DAYS, TRUE)
    IN  \E j \in 1..Len(listed) : listed[j] = record

\* C26: in every state of the store and for every employee, a shift is in
\* get_employee_shifts(employee, 7, only pending) exactly when
\* get_editable_shift(employee, its id, 7) returns that shift.
C26_ListedIffEditable ==
    \A employee_name \in StaffNames : \A i \in Rows :
        Listed(employee_name, FetchRecord(i))
            <=> get_editable_shift(employee_name, FetchRecord(i).shift_id, EDIT_MAX_DAYS)
                    = <<FetchRecord(i)>>

\* the columns update_shift_details writes, and the columns update_shift_status writes
DetailFields == {"date", "overtime", "hours", "comment", "submitted"}
DecisionFields == {"status", "approved", "mcomment", "manager"}
ShiftFields == {"id", "name"} \cup DetailFields \cup DecisionFields

\* the step changes, in the shifts sheet, at most the given fields of row i
ChangesOnly(i, fields) ==
    /\ Len(shifts') = Len(shifts)
    /\ \A j \in Rows \ {i} : shifts'[j] = shifts[j]
    /\ \A f \in ShiftFields \ fields : shifts'[i][f] = shifts[i][f]

\* C27: the write of update_shift_details changes only shift_date, overtime_hours,
\* shift_hours, comment and submitted_at of its target row, the write of
\* update_shift_status only status, approved_at, manager_comment and manager_name of
\* its target row; no other step of the two calls changes the shifts sheet, so
\* shift_id, employee_name and every other row stay as they are.
C27_WriteFrames ==
    [][\A p \in Sessions :
          /\ DetailsWrite(p) => ChangesOnly(loc[p].row_idx - 1, DetailFields)
          /\ StatusWrite(p) => ChangesOnly(loc[p].target.row_index - 1, DecisionFields)
          /\ ( /\ InCall(p, "update_shift_details") \/ InCall(p, "update_shift_status")
               /\ pc'[p] # pc[p]
               /\ pc[p] \notin {"details_write", "status_write"} )
             => shifts' = shifts]_vars

\* an edit and a decision have both been written to the sheet
C27_Witness ==
    /\ \E p \in Sessions :
          /\ pc[p] = "ret"
          /\ loc[p].op = "update_shift_details"
          /\ loc[p].result.ok
          /\ loc[p].before # shifts
    /\ \E j \in 1..Len(log) : log[j].changed

(***************************************************************************)
(* The decision conversation of one chat that may log in as either manager *)
(***************************************************************************)
\* a pending shift routed to the second manager
OtherTeamRow ==
    [id |-> 2, name |-> "bob", date |-> format_date(Today0), overtime |-> 0, hours |-> 8,
     comment |-> <<>>, submitted |-> <<>>,
     status |-> SHIFT_STATUS_PENDING, approved |-> <<>>, mcomment |-> <<>>,
     manager |-> "mia"]

\* the numbers of the two managers, as contact cards carry them
ManagerPhones ==
    { <<"+", "3", "8", "0", "5", "0", "0", "0", "0", "0", "0", "0", "9">>,
      <<"0", "5", "0", "0", "0", "0", "0", "0", "0", "8">> }

\* lines 91-119: a contact card with a manager's number; a card without a user id is
\* taken like the account's own contact (line 95)
ShareManagerContact(p) ==
    \E raw \in ManagerPhones, foreign \in BOOLEAN : handle_contact(p, raw, foreign)

RoutingStep(p) ==
    \/ HandleStart(p)
    \/ ShareManagerContact(p)
    \/ ShowManagerPending(p)
    \/ PressDecisionButton(p)
    \/ FinalizeManagerDecision(p)
    \/ FinalizeManagerDecisionDone(p)
    \/ StatusRead(p)
    \/ StatusWrite(p)
    \/ AccrualFetchEmployee(p)
    \/ AccrualNextId(p)
    \/ AccrualAppend(p)

RoutingNext == \E p \in {Caller} : RoutingStep(p)

RoutingInit ==
    /\ Init
    /\ employees = <<AnnRow, BobRow, MaxRow, MiaRow>>
    /\ shifts \in { <<LegacyRow>>, <<LegacyRow, ColleagueRow>>, <<LegacyRow, OtherTeamRow>> }

\* one chat, its events handled one at a time, pressing only buttons it was sent
RoutingSpec == RoutingInit /\ [][RoutingNext]_vars

\* the write of a decision made in the decision conversation of session p
DecisionWrite(p) ==
    /\ StatusWrite(p)
    /\ loc[p].caller = "finalize_manager_decision"
    /\ shifts' # shifts

\* C28: whenever the decision conversation of a session changes a shift through
\* update_shift_status, the employee the registry holds for the session is the manager
\* named in the manager_name of the pending shift, also when the session has logged in
\* as another manager after the buttons were sent to its chat.
C28_DecidedByRoutedManager ==
    [][\A p \in Sessions :
          DecisionWrite(p) =>
              /\ users[p] # None
              /\ users[p][1].name = shifts[loc[p].target.row_index - 1].manager]_vars

(***************************************************************************)
(* Every conversation of one chat that may log in as staff or as manager   *)
(***************************************************************************)
\* the phone numbers of the contact cards the chat shares: a staff member's, a
\* manager's, and a text without digits
ChatPhones == { ContactPhone(1), ContactPhone(2), JunkText }

\* lines 91-119 on any of the cards
ShareContact(p) ==
    \E raw \in ChatPhones, foreign \in BOOLEAN : handle_contact(p, raw, foreign)

ChatStep(p) ==
    \/ HandleStart(p)
    \/ ShareContact(p)
    \/ RequestShiftDate(p)
    \/ HandleShiftDate(p)
    \/ HandleShiftHours(p)
    \/ HandleOvertimeHours(p)
    \/ HandleShiftComment(p)
    \/ HandleShiftCommentDone(p)
    \/ StartEditingShift(p)
    \/ HandleEditSelection(p)
    \/ HandleEditDate(p)
    \/ HandleEditShiftHours(p)
    \/ HandleEditOvertimeHours(p)
    \/ FinalizeShiftEdit(p)
    \/ FinalizeShiftEditDone(p)
    \/ HandleManagerDecision(p)
    \/ FinalizeManagerDecision(p)
    \/ FinalizeManagerDecisionDone(p)
    \/ HandleManagerPending(p)
    \/ HandleSubordinates(p)
    \/ StatusRead(p)
    \/ StatusWrite(p)
    \/ AccrualFetchEmployee(p)
    \/ AccrualNextId(p)
    \/ AccrualAppend(p)
    \/ AppendNextId(p)
    \/ AppendRow(p)
    \/ DetailsRead(p)
    \/ DetailsWrite(p)

ChatNext == \E p \in {Caller} : ChatStep(p)

\* every handler of one chat, its events handled one at a time
ChatSpec == FlowInit /\ [][ChatNext]_vars

\* C29: a session whose conversation state is a ShiftForm or a ShiftEdit state has an
\* employee in the registry, and a session in ManagerComment.comment has an employee
\* with the manager role there (the events of a session being handled one at a time).
C29_StateHasRole ==
    \A p \in Sessions :
        /\ state[p] \in ShiftFormStates \cup ShiftEditStates => users[p] # None
        /\ state[p] = "ManagerComment.comment" =>
              users[p] # None /\ is_manager(users[p][1])

\* a manager stands in the decision conversation, and so does, on another path, a
\* staff member in the edit conversation
C29_Witness ==
    \E p \in Sessions :
        /\ state[p] = "ManagerComment.comment"
        /\ users[p] # None
        /\ is_manager(users[p][1])
        /\ "shift_id" \in DOMAIN data[p]

\* session p handles /start or a contact
ResetEvent(p) == HandleStart(p) \/ ShareContact(p)

\* C30: in every conversation state a session that is not inside a handler takes
\* /start and a contact, and the step leaves it idle with empty data and writes
\* nothing to the shifts and the accruals; no conversation state is a dead end.
C30_StartAndContactReset ==
    /\ [](\A p \in {Caller} : Idle(p) => ENABLED HandleStart(p) /\ ENABLED ShareContact(p))
    /\ [][\A p \in Sessions :
            ResetEvent(p) =>
                /\ state'[p] = "idle"
                /\ data'[p] = EmptyData
                /\ shifts' = shifts
                /\ accruals' = accruals]_vars

\* a session stands in the middle of a conversation, data gathered, and both events
\* can be handled
C30_Witness ==
    \E p \in Sessions :
        /\ state[p] \in {"ShiftForm.comment", "ShiftEdit.comment", "ManagerComment.comment"}
        /\ data[p] # EmptyData
        /\ Idle(p)
        /\ ENABLED HandleStart(p)
        /\ ENABLED ShareContact(p)

====
